---- MODULE Spec2Model ----
(***************************************************************************)
(* Booking engine of the Camargue Sailing website (src/src/booking.py).    *)
(* One shared table of reservations, one SQLAlchemy session per thread,    *)
(* and the operations check_availability, create_booking, cancel_booking.  *)
(* Calendar dates are integers 0..MaxDate; `today` is date.today().         *)
(***************************************************************************)
EXTENDS Integers, Sequences, FiniteSets, TLC

\* ---------------------------------------------------------------- bounds
\* the last calendar date, and the last value of date.today()
MaxDate == 2
MaxDay == 1
\* the number of days of a calendar year
YearLen == 2

\* the largest max_retries a call of send_email is given
MaxRetries == 10

\* the number of times the clock of the verification tokens advances, and
\* the number of tokens issued
MaxNow == 2
MaxTokens == 1
\* generate_verification_token(user_id, expiration_hours=24)
expiration_hours == 24

Dates == 0..MaxDate
Users == {1, 2}
\* the identifiers the store has to give; 0 is never given, so it names no row
StoreIds == {1, 2}
BookingIds == StoreIds \cup {0}
Threads == {"t1", "t2"}
\* texts of the storage errors the driver can raise
DbErrors == {"connection lost", "deadlock detected"}
\* the calendar years that hold a date
Years == 0..(MaxDate \div YearLen)

\* the characters of an e-mail address, and the addresses and passwords
\* that requests carry
Chars == {"a", "A", "b", " "}
RawEmails == {<<>>, <<"a">>, <<"A">>, <<"b">>, <<" ", "A">>}
Passwords == {"", "short", "sailing-1"}
\* values of the token argument: the issued tokens and "" (0)
TokenArgs == 0..MaxTokens

VARIABLES bookings, nextId, today, session, pc, req, last,
          users, nextUid, tokens, nextTok, now, web, resp, mailer

vars == <<bookings, nextId, today, session, pc, req, last,
          users, nextUid, tokens, nextTok, now, web, resp, mailer>>

\* the state of the booking engine, and that of the accounts
bookvars == <<bookings, nextId, today, session, last>>
authvars == <<users, nextUid, tokens, nextTok, now, web, resp>>

\* ------------------------------------------------------------ data model
\* A row of the table `bookings` (models.py, class Booking).
Booking(id, user_id, start_date, end_date, status) ==
    [id |-> id, user_id |-> user_id, start_date |-> start_date,
     end_date |-> end_date, status |-> status]

\* Python's None where a Booking is expected.
None == Booking(0, 0, 0, 0, "none")

\* A session with nothing pending: no new object, no modified row.
EmptySession == [new |-> <<>>, dirty |-> {}]

\* ---------------------------------------------- SQLAlchemy session calls
\* db_session.add(obj): the object is pending until the next flush.
session_add(sess, obj) == [sess EXCEPT !.new = Append(@, obj)]

\* booking.status = 'cancelled' on a loaded row: the row is dirty until the
\* next flush.
session_set_cancelled(sess, id) == [sess EXCEPT !.dirty = @ \cup {id}]

\* The rows a flush of the session writes: the pending objects get the next
\* identifiers of the sequence, the dirty rows get their new status.
flushed_new(sess, nid) ==
    {[sess.new[i] EXCEPT !.id = nid + i - 1] : i \in 1..Len(sess.new)}

\* Fault: the flush writes the new rows and loses the modified status.
flushed_db_status_lost(db, sess, nid) == db \cup flushed_new(sess, nid)

\* Fault: the flush turns the status of a modified row over.
flushed_db_toggle(db, sess, nid) ==
    {IF b.id \in sess.dirty
        THEN [b EXCEPT !.status = IF @ = "confirmed" THEN "cancelled" ELSE "confirmed"]
        ELSE b : b \in db}
        \cup flushed_new(sess, nid)

\* Fault: the flush deletes the modified rows.
flushed_db_deletes(db, sess, nid) ==
    {b \in db : b.id \notin sess.dirty} \cup flushed_new(sess, nid)

flushed_db(db, sess, nid) ==
    {IF b.id \in sess.dirty THEN [b EXCEPT !.status = "cancelled"] ELSE b : b \in db}
        \cup flushed_new(sess, nid)

\* Fault: a failed commit leaves what it had flushed in the store.
session_commit_partial(db, nid, sess, commitOk) ==
    IF commitOk
    THEN [ok |-> TRUE, db |-> flushed_db(db, sess, nid),
          nextId |-> nid + Len(sess.new), session |-> EmptySession]
    ELSE [ok |-> FALSE, db |-> flushed_db(db, sess, nid), nextId |-> nid,
          session |-> sess]

\* db_session.commit(): with the store answering, everything pending is
\* written in one transaction and the session is clean; otherwise nothing is
\* written, the exception is raised and the session keeps what is pending.
session_commit(db, nid, sess, commitOk) ==
    IF commitOk
    THEN [ok |-> TRUE, db |-> flushed_db(db, sess, nid),
          nextId |-> nid + Len(sess.new), session |-> EmptySession]
    ELSE [ok |-> FALSE, db |-> db, nextId |-> nid, session |-> sess]

\* Fault: the rollback is left out, the session keeps what was pending.
session_rollback_missing(sess) == sess

\* db_session.rollback(): pending objects are expunged, dirty rows expire.
session_rollback(sess) == EmptySession

\* ------------------------------------------------------- booking.py 17-69
\* date(year, 1, 1) and date(year, 12, 31).
start_of_year(year) == year * YearLen
end_of_year(year) == year * YearLen + YearLen - 1

\* date.isoformat(): the year, then the day within the year.
isoformat(d) == ToString(d \div YearLen) \o "-" \o ToString(d % YearLen)

\* Fault: the calendar query selects the confirmed rows only.
calendar_rows_confirmed_only(db, year) ==
    {b \in db : /\ b.status = "confirmed"
                /\ b.start_date <= end_of_year(year)
                /\ b.end_date >= start_of_year(year)}

\* The rows the calendar query selects.
calendar_rows(db, year) ==
    {b \in db : /\ b.start_date <= end_of_year(year)
                /\ b.end_date >= start_of_year(year)}

\* order_by(Booking.start_date): the orders the store may give the rows in;
\* rows with the same start date come in any order.
order_by_start_date(rows) ==
    {q \in [1..Cardinality(rows) -> rows] :
        /\ \A i, j \in DOMAIN q : i # j => q[i] # q[j]
        /\ \A i, j \in DOMAIN q : i < j => q[i].start_date <= q[j].start_date}

\* The dictionary of lines 54-61.
calendar_entry(b) ==
    [id |-> b.id, start_date |-> isoformat(b.start_date),
     end_date |-> isoformat(b.end_date), status |-> b.status,
     is_available |-> FALSE, user_id |-> b.user_id]

\* Fault: a failed query is taken for an answered one and rows are listed.
get_calendar_data_unguarded(db, year, queryOk) ==
    {[i \in DOMAIN q |-> calendar_entry(q[i])] :
        q \in order_by_start_date(calendar_rows(db, year))}

\* The lists the call may return.
get_calendar_data(db, year, queryOk) ==
    IF ~queryOk THEN {<<>>}
    ELSE {[i \in DOMAIN q |-> calendar_entry(q[i])] :
             q \in order_by_start_date(calendar_rows(db, year))}

\* ------------------------------------------------------ booking.py 72-115
\* Fault: the query tests only whether the requested start falls in a row.
overlapping_bookings_start_only(db, start_date, end_date) ==
    {b \in db : /\ b.status = "confirmed"
                /\ b.start_date <= start_date
                /\ b.end_date > start_date}

\* Fault: the status filter is left out.
overlapping_bookings_any_status(db, start_date, end_date) ==
    {b \in db : /\ b.start_date < end_date
                /\ b.end_date > start_date}

\* Fault: the comparisons include the boundary dates.
overlapping_bookings_inclusive(db, start_date, end_date) ==
    {b \in db : /\ b.status = "confirmed"
                /\ b.start_date <= end_date
                /\ b.end_date >= start_date}

\* The rows the overlap query selects.
overlapping_bookings(db, start_date, end_date) ==
    {b \in db : /\ b.status = "confirmed"
                /\ b.start_date < end_date
                /\ b.end_date > start_date}

\* Fault: a failed query is answered with "available".
check_availability_fail_open(db, start_date, end_date, queryOk) ==
    IF end_date <= start_date THEN FALSE
    ELSE IF ~queryOk THEN TRUE
    ELSE Cardinality(overlapping_bookings(db, start_date, end_date)) = 0

check_availability(db, start_date, end_date, queryOk) ==
    IF end_date <= start_date THEN FALSE
    ELSE IF ~queryOk THEN FALSE
    ELSE Cardinality(overlapping_bookings(db, start_date, end_date)) = 0

\* ----------------------------------------------------- booking.py 118-176
ErrPast == "Start date cannot be in the past"
ErrRange == "End date must be after start date"
ErrConflict == "The requested period is not available - it overlaps with an existing booking"
ErrFailed(e) == "Failed to create booking: " \o e

\* Fault: the availability check is left out.
create_booking_validate_unchecked(db, td, start_date, end_date, queryOk) ==
    IF start_date < td THEN ErrPast
    ELSE IF end_date <= start_date THEN ErrRange
    ELSE ""

\* Fault: today itself is refused as a start date.
create_booking_validate_today_refused(db, td, start_date, end_date, queryOk) ==
    IF start_date <= td THEN ErrPast
    ELSE IF end_date <= start_date THEN ErrRange
    ELSE IF ~check_availability(db, start_date, end_date, queryOk) THEN ErrConflict
    ELSE ""

\* Fault: only the start date is checked.
create_booking_validate_past_only(db, td, start_date, end_date, queryOk) ==
    IF start_date < td THEN ErrPast ELSE ""

\* Fault: the range is checked before the start date.
create_booking_validate_range_first(db, td, start_date, end_date, queryOk) ==
    IF end_date <= start_date THEN ErrRange
    ELSE IF start_date < td THEN ErrPast
    ELSE IF ~check_availability(db, start_date, end_date, queryOk) THEN ErrConflict
    ELSE ""

\* Fault: a failed availability query is reported as a storage failure.
create_booking_validate_fail_generic(db, td, start_date, end_date, queryOk) ==
    IF start_date < td THEN ErrPast
    ELSE IF end_date <= start_date THEN ErrRange
    ELSE IF ~queryOk THEN ErrFailed("")
    ELSE IF ~check_availability(db, start_date, end_date, queryOk) THEN ErrConflict
    ELSE ""

\* Lines 144-157: the three checks, in the order of the code. "" when all
\* of them pass.
create_booking_validate(db, td, start_date, end_date, queryOk) ==
    IF start_date < td THEN ErrPast
    ELSE IF end_date <= start_date THEN ErrRange
    ELSE IF ~check_availability(db, start_date, end_date, queryOk) THEN ErrConflict
    ELSE ""

\* Fault: the row is written with the status 'pending'.
create_booking_insert_pending(db, nid, sess, user_id, start_date, end_date, commitOk, e) ==
    LET booking == Booking(0, user_id, start_date, end_date, "pending")
        added == session_add(sess, booking)
        c == session_commit(db, nid, added, commitOk)
    IN  IF c.ok
        THEN [err |-> "", booking |-> [booking EXCEPT !.id = c.nextId - 1],
              db |-> c.db, nextId |-> c.nextId, session |-> c.session]
        ELSE [err |-> ErrFailed(e), booking |-> None,
              db |-> c.db, nextId |-> c.nextId,
              session |-> session_rollback(c.session)]

\* Lines 159-176: the insert. e is the text of the storage error that the
\* commit raises when commitOk is FALSE.
create_booking_insert(db, nid, sess, user_id, start_date, end_date, commitOk, e) ==
    LET booking == Booking(0, user_id, start_date, end_date, "confirmed")
        added == session_add(sess, booking)
        c == session_commit(db, nid, added, commitOk)
    IN  IF c.ok
        THEN [err |-> "", booking |-> [booking EXCEPT !.id = c.nextId - 1],
              db |-> c.db, nextId |-> c.nextId, session |-> c.session]
        ELSE [err |-> ErrFailed(e), booking |-> None,
              db |-> c.db, nextId |-> c.nextId,
              session |-> session_rollback(c.session)]

create_booking(db, nid, sess, td, user_id, start_date, end_date, queryOk, commitOk, e) ==
    LET v == create_booking_validate(db, td, start_date, end_date, queryOk)
    IN  IF v # ""
        THEN [err |-> v, booking |-> None, db |-> db, nextId |-> nid, session |-> sess]
        ELSE create_booking_insert(db, nid, sess, user_id, start_date, end_date, commitOk, e)

\* ----------------------------------------------------- booking.py 180-223
\* Fault: the ownership check of lines 208-210 is left out.
cancel_booking_any_user(db, nid, sess, booking_id, user_id, queryOk, commitOk, e) ==
    LET found == {b \in db : b.id = booking_id}
        unchanged == [ret |-> FALSE, exc |-> "", db |-> db, session |-> sess]
    IN  IF ~queryOk THEN [unchanged EXCEPT !.exc = e]
        ELSE IF found = {} THEN unchanged
        ELSE LET c == session_commit(db, nid, session_set_cancelled(sess, booking_id), commitOk)
             IN  IF c.ok
                 THEN [ret |-> TRUE, exc |-> "", db |-> c.db, session |-> c.session]
                 ELSE [ret |-> FALSE, exc |-> "", db |-> c.db,
                       session |-> session_rollback(c.session)]

\* Fault: a reservation that is already cancelled is refused.
cancel_booking_once(db, nid, sess, booking_id, user_id, queryOk, commitOk, e) ==
    LET found == {b \in db : b.id = booking_id}
        unchanged == [ret |-> FALSE, exc |-> "", db |-> db, session |-> sess]
    IN  IF ~queryOk THEN [unchanged EXCEPT !.exc = e]
        ELSE IF found = {} THEN unchanged
        ELSE IF (CHOOSE b \in found : TRUE).user_id # user_id THEN unchanged
        ELSE IF (CHOOSE b \in found : TRUE).status = "cancelled" THEN unchanged
        ELSE LET c == session_commit(db, nid, session_set_cancelled(sess, booking_id), commitOk)
             IN  IF c.ok
                 THEN [ret |-> TRUE, exc |-> "", db |-> c.db, session |-> c.session]
                 ELSE [ret |-> FALSE, exc |-> "", db |-> c.db,
                       session |-> session_rollback(c.session)]

\* exc is the text of a raised exception, "" when the call returns.
cancel_booking(db, nid, sess, booking_id, user_id, queryOk, commitOk, e) ==
    LET found == {b \in db : b.id = booking_id}
        unchanged == [ret |-> FALSE, exc |-> "", db |-> db, session |-> sess]
    IN  IF ~queryOk THEN [unchanged EXCEPT !.exc = e]
        ELSE IF found = {} THEN unchanged
        ELSE IF (CHOOSE b \in found : TRUE).user_id # user_id THEN unchanged
        ELSE LET c == session_commit(db, nid, session_set_cancelled(sess, booking_id), commitOk)
             IN  IF c.ok
                 THEN [ret |-> TRUE, exc |-> "", db |-> c.db, session |-> c.session]
                 ELSE [ret |-> FALSE, exc |-> "", db |-> c.db,
                       session |-> session_rollback(c.session)]

\* ---------------------------------------------------------------- auth.py
\* A row of the table `users` and one of `verification_tokens` (models.py).
User(id, email, password_hash, is_verified) ==
    [id |-> id, email |-> email, password_hash |-> password_hash,
     is_verified |-> is_verified]

VerificationToken(token, user_id, expires_at) ==
    [token |-> token, user_id |-> user_id, expires_at |-> expires_at]

\* str.lower() and str.strip().
lower(str) == [i \in DOMAIN str |-> IF str[i] = "A" THEN "a" ELSE str[i]]

RECURSIVE lstrip(_)
lstrip(str) ==
    IF str # <<>> /\ Head(str) = " " THEN lstrip(Tail(str)) ELSE str

RECURSIVE rstrip(_)
rstrip(str) ==
    IF str # <<>> /\ str[Len(str)] = " "
    THEN rstrip(SubSeq(str, 1, Len(str) - 1)) ELSE str

strip(str) == rstrip(lstrip(str))

\* len(password).
PasswordLen(password) ==
    CASE password = "" -> 0
      [] password = "short" -> 5
      [] OTHER -> 9

\* generate_password_hash and check_password_hash.
generate_password_hash(password) == <<"hash", password>>
check_password(user, password) == user.password_hash = generate_password_hash(password)

\* validate_email, validate_password: the error message, "" when valid. The
\* pattern of line 45 admits no blank.
validate_email(email) ==
    IF email = <<>> THEN "Email is required"
    ELSE IF \E i \in DOMAIN email : email[i] = " " THEN "Invalid email format"
    ELSE ""

validate_password(password) ==
    IF password = "" THEN "Password is required"
    ELSE IF PasswordLen(password) < 8
         THEN "Password must be at least 8 characters long"
    ELSE ""

ErrRegistered == "Email address is already registered"
ErrCreateUser(e) == "Failed to create user account: " \o e
ErrCredentialsRequired == "Email and password are required"
ErrIncorrect == "Incorrect email or password"
ErrUnverified == "Email verification is required. Please check your email for the verification link."
ErrVerify(e) == "Failed to verify user: " \o e
ErrNoUser(id) == "User with id " \o ToString(id) \o " does not exist"
ErrToken(e) == "Failed to generate verification token: " \o e

\* Python's None where a User is expected.
NoUser == User(0, <<>>, <<>>, FALSE)

\* query(User).filter_by(...).first()
user_by_email(udb, email) ==
    IF \E u \in udb : u.email = email
    THEN CHOOSE u \in udb : u.email = email ELSE NoUser

user_by_id(udb, id) ==
    IF \E u \in udb : u.id = id
    THEN CHOOSE u \in udb : u.id = id ELSE NoUser

\* register_user, lines 102-118: the validations, the normalisation and the
\* existence check. exc is the text of a raised storage exception, err the
\* message of a RegistrationError, email the normalised address.
register_user_check(udb, email, password, queryOk, e) ==
    LET normal == strip(lower(email))
        refused(msg) == [err |-> msg, exc |-> "", email |-> normal]
    IN  IF validate_email(email) # "" THEN refused(validate_email(email))
        ELSE IF validate_password(password) # "" THEN refused(validate_password(password))
        ELSE IF ~queryOk THEN [err |-> "", exc |-> e, email |-> normal]
        ELSE IF user_by_email(udb, normal) # NoUser THEN refused(ErrRegistered)
        ELSE refused("")

\* Fault: the account is created verified.
register_user_insert_verified(udb, nuid, email, password, commitOk, e) ==
    LET user == User(nuid, email, generate_password_hash(password), TRUE)
        failed(msg) == [err |-> msg, exc |-> "", user |-> NoUser,
                        users |-> udb, nextUid |-> nuid]
    IN  IF ~commitOk THEN failed(ErrCreateUser(e))
        ELSE IF \E u \in udb : u.email = email THEN failed(ErrRegistered)
        ELSE [err |-> "", exc |-> "", user |-> user,
              users |-> udb \cup {user}, nextUid |-> nuid + 1]

\* Fault: the table has no unique index on the address.
register_user_insert_unconstrained(udb, nuid, email, password, commitOk, e) ==
    LET user == User(nuid, email, generate_password_hash(password), FALSE)
    IN  IF ~commitOk
        THEN [err |-> ErrCreateUser(e), exc |-> "", user |-> NoUser,
              users |-> udb, nextUid |-> nuid]
        ELSE [err |-> "", exc |-> "", user |-> user,
              users |-> udb \cup {user}, nextUid |-> nuid + 1]

\* register_user, lines 120-143: the insert. The unique index on
\* users.email refuses a second row with the same address.
register_user_insert(udb, nuid, email, password, commitOk, e) ==
    LET user == User(nuid, email, generate_password_hash(password), FALSE)
        failed(msg) == [err |-> msg, exc |-> "", user |-> NoUser,
                        users |-> udb, nextUid |-> nuid]
    IN  IF ~commitOk THEN failed(ErrCreateUser(e))
        ELSE IF \E u \in udb : u.email = email THEN failed(ErrRegistered)
        ELSE [err |-> "", exc |-> "", user |-> user,
              users |-> udb \cup {user}, nextUid |-> nuid + 1]

register_user(udb, nuid, email, password, queryOk, commitOk, e) ==
    LET v == register_user_check(udb, email, password, queryOk, e)
    IN  IF v.err # "" \/ v.exc # ""
        THEN [err |-> v.err, exc |-> v.exc, user |-> NoUser,
              users |-> udb, nextUid |-> nuid]
        ELSE register_user_insert(udb, nuid, v.email, password, commitOk, e)

\* generate_verification_token: ret is the token, 0 when none is returned.
\* secrets.token_urlsafe(32) gives a token that was never given before.
generate_verification_token(udb, tdb, ntok, utcnow, user_id, queryOk, commitOk, e) ==
    LET failed(msg, x) == [ret |-> 0, err |-> msg, exc |-> x,
                           tokens |-> tdb, nextTok |-> ntok]
    IN  IF ~queryOk THEN failed("", e)
        ELSE IF user_by_id(udb, user_id) = NoUser THEN failed(ErrNoUser(user_id), "")
        ELSE IF ~commitOk THEN failed(ErrToken(e), "")
        ELSE [ret |-> ntok, err |-> "", exc |-> "",
              tokens |-> tdb \cup
                  {VerificationToken(ntok, user_id, utcnow + expiration_hours)},
              nextTok |-> ntok + 1]

\* Fault: no token ever expires.
is_expired_never(verification_token, utcnow) == FALSE

\* VerificationToken.is_expired().
is_expired(verification_token, utcnow) ==
    utcnow > verification_token.expires_at

\* Fault: the token is kept after it has verified its user.
verify_token_keeps(udb, tdb, utcnow, token, queryOk, commitOk, e) ==
    LET none == [ret |-> 0, err |-> "", exc |-> "", users |-> udb, tokens |-> tdb]
        found == {k \in tdb : k.token = token}
    IN  IF token = 0 THEN none
        ELSE IF ~queryOk THEN [none EXCEPT !.exc = e]
        ELSE IF found = {} THEN none
        ELSE LET verification_token == CHOOSE k \in found : TRUE
                 user == user_by_id(udb, verification_token.user_id)
             IN  IF utcnow > verification_token.expires_at
                 THEN IF commitOk
                      THEN [none EXCEPT !.tokens = tdb \ {verification_token}]
                      ELSE none
                 ELSE IF user = NoUser THEN none
                 ELSE IF ~commitOk THEN [none EXCEPT !.err = ErrVerify(e)]
                 ELSE [ret |-> user.id, err |-> "", exc |-> "",
                       users |-> (udb \ {user})
                                    \cup {[user EXCEPT !.is_verified = TRUE]},
                       tokens |-> tdb]

\* verify_token: ret is the user's id, 0 for None; err the message of the
\* ValueError, exc the text of a raised storage exception.
verify_token(udb, tdb, utcnow, token, queryOk, commitOk, e) ==
    LET none == [ret |-> 0, err |-> "", exc |-> "", users |-> udb, tokens |-> tdb]
        found == {k \in tdb : k.token = token}
    IN  IF token = 0 THEN none
        ELSE IF ~queryOk THEN [none EXCEPT !.exc = e]
        ELSE IF found = {} THEN none
        ELSE LET verification_token == CHOOSE k \in found : TRUE
                 user == user_by_id(udb, verification_token.user_id)
             IN  IF is_expired(verification_token, utcnow)
                 THEN IF commitOk
                      THEN [none EXCEPT !.tokens = tdb \ {verification_token}]
                      ELSE none
                 ELSE IF user = NoUser THEN none
                 ELSE IF ~commitOk THEN [none EXCEPT !.err = ErrVerify(e)]
                 ELSE [ret |-> user.id, err |-> "", exc |-> "",
                       users |-> (udb \ {user})
                                    \cup {[user EXCEPT !.is_verified = TRUE]},
                       tokens |-> tdb \ {verification_token}]

\* Fault: an email that is not registered has an error of its own.
authenticate_user_telling(udb, email, password, queryOk, e) ==
    LET user == user_by_email(udb, strip(lower(email)))
        refused(msg, x) == [user |-> NoUser, err |-> msg, exc |-> x]
    IN  IF email = <<>> \/ password = "" THEN refused(ErrCredentialsRequired, "")
        ELSE IF ~queryOk THEN refused("", e)
        ELSE IF user = NoUser THEN refused("No account with this email", "")
        ELSE IF ~check_password(user, password) THEN refused(ErrIncorrect, "")
        ELSE IF ~user.is_verified THEN refused(ErrUnverified, "")
        ELSE [user |-> user, err |-> "", exc |-> ""]

\* Fault: the verification of the user is not tested.
authenticate_user_unverified(udb, email, password, queryOk, e) ==
    LET user == user_by_email(udb, strip(lower(email)))
        refused(msg, x) == [user |-> NoUser, err |-> msg, exc |-> x]
    IN  IF email = <<>> \/ password = "" THEN refused(ErrCredentialsRequired, "")
        ELSE IF ~queryOk THEN refused("", e)
        ELSE IF user = NoUser \/ ~check_password(user, password)
             THEN refused(ErrIncorrect, "")
        ELSE [user |-> user, err |-> "", exc |-> ""]

\* authenticate_user: user is the returned user, err the message of the
\* AuthenticationError.
authenticate_user(udb, email, password, queryOk, e) ==
    LET user == user_by_email(udb, strip(lower(email)))
        refused(msg, x) == [user |-> NoUser, err |-> msg, exc |-> x]
    IN  IF email = <<>> \/ password = "" THEN refused(ErrCredentialsRequired, "")
        ELSE IF ~queryOk THEN refused("", e)
        ELSE IF user = NoUser \/ ~check_password(user, password)
             THEN refused(ErrIncorrect, "")
        ELSE IF ~user.is_verified THEN refused(ErrUnverified, "")
        ELSE [user |-> user, err |-> "", exc |-> ""]

\* get_user_by_id: a failed query is answered with None.
get_user_by_id(udb, user_id, queryOk) ==
    IF user_id = 0 THEN NoUser
    ELSE IF ~queryOk THEN NoUser
    ELSE user_by_id(udb, user_id)

\* app.py 283-363, POST /signin: web is the user_id of the Flask session
\* (0 when it has none); to is the redirect target or the status.
signin(udb, user_id, email, password, queryOk, e) ==
    LET stripped == strip(email)
        a == authenticate_user(udb, stripped, password, queryOk, e)
        answer(w, msg, to) == [web |-> w, err |-> msg, to |-> to]
    IN  IF user_id # 0 THEN answer(user_id, "", "home")
        ELSE IF validate_email(stripped) # ""
             THEN answer(0, validate_email(stripped), "400")
        ELSE IF password = "" THEN answer(0, "Password is required", "400")
        ELSE IF a.exc # "" THEN answer(0, "An unexpected error occurred. Please try again later.", "500")
        ELSE IF a.err # "" THEN answer(0, a.err, "401")
        ELSE answer(a.user.id, "", "home")

FlashUnexpected == "An unexpected error occurred. Please try again later."
FlashRegistered == "Registration successful! Please check your email to verify your account."
FlashRegisteredUnsent == "Registration successful! However, we could not send the verification email. Please contact support."

\* email_service.py 112-238, send_verification_email(user, base_url), called
\* with nargs positional arguments: a call that does not give both raises
\* TypeError before the body runs; the body generates the token, sends the
\* mail (sent) and returns whether it was sent, False on any exception.
send_verification_email(udb, tdb, ntok, utcnow, user, nargs, queryOk, commitOk, e, sent) ==
    LET g == generate_verification_token(udb, tdb, ntok, utcnow, user.id,
                                         queryOk, commitOk, e)
    IN  IF nargs # 2
        THEN [raised |-> TRUE, ret |-> FALSE, tokens |-> tdb, nextTok |-> ntok]
        ELSE IF g.ret = 0
        THEN [raised |-> FALSE, ret |-> FALSE, tokens |-> tdb, nextTok |-> ntok]
        ELSE [raised |-> FALSE, ret |-> sent, tokens |-> g.tokens, nextTok |-> g.nextTok]

\* app.py 165-252, the handler of POST /signup; the verification mail is
\* requested as send_verification_email(user) (line 223).
signup(udb, nuid, tdb, ntok, utcnow, user_id, email, password, confirm_password, queryOk, commitOk, e, tokQueryOk, tokCommitOk, sent) ==
    LET stripped == strip(email)
        r == register_user(udb, nuid, stripped, password, queryOk, commitOk, e)
        m == send_verification_email(r.users, tdb, ntok, utcnow, r.user, 1,
                                     tokQueryOk, tokCommitOk, e, sent)
        answer(id, msg, to) == [ret |-> id, err |-> msg, to |-> to, users |-> udb,
                                nextUid |-> nuid, tokens |-> tdb, nextTok |-> ntok]
    IN  IF user_id # 0 THEN answer(0, "", "home")
        ELSE IF validate_email(stripped) # "" THEN answer(0, validate_email(stripped), "400")
        ELSE IF validate_password(password) # ""
             THEN answer(0, validate_password(password), "400")
        ELSE IF password # "" /\ confirm_password # "" /\ password # confirm_password
             THEN answer(0, "Passwords do not match", "400")
        ELSE IF r.exc # "" THEN answer(0, FlashUnexpected, "500")
        ELSE IF r.err # "" THEN answer(0, r.err, "400")
        ELSE [ret |-> r.user.id,
              err |-> IF m.raised THEN FlashRegisteredUnsent ELSE FlashRegistered,
              to |-> "signin", users |-> r.users, nextUid |-> r.nextUid,
              tokens |-> m.tokens, nextTok |-> m.nextTok]

\* app.py 254-281, the handler of GET /verify/<token>; an exception of
\* verify_token is not caught (to = "500").
verify_email(udb, tdb, utcnow, token, queryOk, commitOk, e) ==
    LET r == verify_token(udb, tdb, utcnow, token, queryOk, commitOk, e)
    IN  [ret |-> r.ret, users |-> r.users, tokens |-> r.tokens,
         to |-> IF r.exc # "" \/ r.err # "" THEN "500"
                ELSE IF r.ret # 0 THEN "signin" ELSE "home"]

FlashSignIn == "Please sign in to access this page."
FlashExpired == "Session expired. Please sign in again."
FlashVerify == "Email verification is required to access this page. Please check your email for the verification link."

\* auth.py 332-361, login_required: the request passes when the session
\* holds a user_id.
login_required(user_id) == user_id # 0

\* The answer of a guard: whether the handler runs, and when it does not
\* the redirect target, the message flashed and the user_id the session
\* holds afterwards.
Guard(run, to, msg, user_id) == [run |-> run, to |-> to, msg |-> msg, web |-> user_id]

\* Fault: the verification of the user is not tested.
verified_required_unchecked(udb, user_id, queryOk) ==
    LET user == get_user_by_id(udb, user_id, queryOk)
    IN  IF user_id = 0 THEN Guard(FALSE, "signin", FlashSignIn, user_id)
        ELSE IF user = NoUser THEN Guard(FALSE, "signin", FlashExpired, 0)
        ELSE Guard(TRUE, "", "", user_id)

\* Fault: the session of a user that is not found is kept.
verified_required_keeps(udb, user_id, queryOk) ==
    LET user == get_user_by_id(udb, user_id, queryOk)
    IN  IF user_id = 0 THEN Guard(FALSE, "signin", FlashSignIn, user_id)
        ELSE IF user = NoUser THEN Guard(FALSE, "signin", FlashExpired, user_id)
        ELSE IF ~user.is_verified THEN Guard(FALSE, "home", FlashVerify, user_id)
        ELSE Guard(TRUE, "", "", user_id)

\* auth.py 364-410, verified_required; session.clear() leaves no user_id.
verified_required(udb, user_id, queryOk) ==
    LET user == get_user_by_id(udb, user_id, queryOk)
    IN  IF user_id = 0 THEN Guard(FALSE, "signin", FlashSignIn, user_id)
        ELSE IF user = NoUser THEN Guard(FALSE, "signin", FlashExpired, 0)
        ELSE IF ~user.is_verified THEN Guard(FALSE, "home", FlashVerify, user_id)
        ELSE Guard(TRUE, "", "", user_id)

\* @login_required over @verified_required, as on every guarded route.
guarded(udb, user_id, queryOk) ==
    IF ~login_required(user_id)
    THEN Guard(FALSE, "signin", FlashSignIn, user_id)
    ELSE verified_required(udb, user_id, queryOk)

\* The outcomes of send_booking_confirmation: the mail is sent (True), it
\* is not (False), or the call raises.
MailOutcomes == {"sent", "unsent", "raised"}
\* The form of POST /book: both dates given and parsed, one missing, or one
\* that strptime refuses.
Forms == {"valid", "missing", "unparsable"}

FlashSent == "Booking created successfully! A confirmation email has been sent."
FlashUnsent == "Booking created successfully! However, we could not send the confirmation email. Please contact support."

\* Fault: a confirmation that cannot be sent fails the request and takes
\* the reservation back.
book_undoing(db, nid, sess, td, user_id, form, start_date, end_date, queryOk, commitOk, e, userOk, mail) ==
    LET r == create_booking(db, nid, sess, td, user_id, start_date, end_date,
                            queryOk, commitOk, e)
        kept == [r EXCEPT !.booking = None, !.db = db, !.nextId = nid, !.session = sess]
    IN  IF form # "valid" THEN [kept EXCEPT !.err = "Invalid form"] @@ [to |-> "400", called |-> FALSE]
        ELSE IF r.err # "" THEN r @@ [to |-> "400", called |-> TRUE]
        ELSE IF ~userOk THEN [r EXCEPT !.err = FlashUnexpected] @@ [to |-> "500", called |-> TRUE]
        ELSE IF mail # "sent"
             THEN [r EXCEPT !.err = FlashUnexpected, !.db = db] @@ [to |-> "500", called |-> TRUE]
        ELSE [r EXCEPT !.err = FlashSent] @@ [to |-> "calendar", called |-> TRUE]

\* app.py 427-534, the handler of POST /book: the result of create_booking
\* when it is called (called), with err the message shown and to the
\* redirect target or the status.
book(db, nid, sess, td, user_id, form, start_date, end_date, queryOk, commitOk, e, userOk, mail) ==
    LET r == create_booking(db, nid, sess, td, user_id, start_date, end_date,
                            queryOk, commitOk, e)
        kept == [r EXCEPT !.booking = None, !.db = db, !.nextId = nid, !.session = sess]
    IN  IF form = "missing"
        THEN [kept EXCEPT !.err = "Start date is required"] @@ [to |-> "400", called |-> FALSE]
        ELSE IF form = "unparsable"
        THEN [kept EXCEPT !.err = "Invalid date format. Please use YYYY-MM-DD format."]
                 @@ [to |-> "400", called |-> FALSE]
        ELSE IF r.err # "" THEN r @@ [to |-> "400", called |-> TRUE]
        ELSE IF ~userOk THEN [r EXCEPT !.err = FlashUnexpected] @@ [to |-> "500", called |-> TRUE]
        ELSE IF mail = "raised"
             THEN [r EXCEPT !.err = FlashUnsent] @@ [to |-> "calendar", called |-> TRUE]
        ELSE [r EXCEPT !.err = FlashSent] @@ [to |-> "calendar", called |-> TRUE]

\* ------------------------------------------------- email_service.py 37-109
\* A call of send_email: where it is (idle: no call, loop: at the test of
\* the while, done: returned or raised), its max_retries, the local
\* attempt, the number of calls of mail.send made, the arguments of the
\* calls of time.sleep in order, and what it returned or raised.
NoMail ==
    [pc |-> "idle", max_retries |-> 0, attempt |-> 0, sends |-> 0,
     slept |-> <<>>, ret |-> "none"]

\* Lines 61-66: ValueError when mail is not initialised, attempt = 0
\* otherwise.
send_email_enter(max_retries, initialised) ==
    IF initialised
    THEN [NoMail EXCEPT !.pc = "loop", !.max_retries = max_retries]
    ELSE [NoMail EXCEPT !.pc = "done", !.max_retries = max_retries,
                        !.ret = "ValueError"]

\* Fault: one attempt too many.
send_email_continues_inclusive(m) ==
    m.attempt <= m.max_retries

\* Line 67: while attempt < max_retries.
send_email_continues(m) ==
    m.attempt < m.max_retries

\* Fault: the wait grows by one second per attempt.
backoff_time_linear(attempt) ==
    attempt

\* Line 99: backoff_time = 2 ** (attempt - 1).
backoff_time(attempt) ==
    2 ^ (attempt - 1)

\* Lines 68-101, one turn of the loop: mail.send(msg) returns (sent) and
\* the function returns True, or it raises, attempt is incremented and
\* the function sleeps when attempts are left.
send_email_attempt(m, sent) ==
    IF sent
    THEN [m EXCEPT !.sends = @ + 1, !.pc = "done", !.ret = "True"]
    ELSE LET attempt == m.attempt + 1
         IN  [m EXCEPT !.sends = @ + 1,
                       !.attempt = attempt,
                       !.slept = IF attempt < m.max_retries
                                 THEN Append(@, backoff_time(attempt))
                                 ELSE @]

\* Lines 103-109: all retries exhausted, return False.
send_email_exhausted(m) ==
    [m EXCEPT !.pc = "done", !.ret = "False"]

\* ------------------------------------------------------ models.py 17-160
\* models.py 146, Booking.user_id = ForeignKey('users.id'), nullable=False:
\* the store commits a reservation only when its owner is a stored user.
foreign_key_holds(udb, user_id) ==
    \E u \in udb : u.id = user_id

\* Fault: the reservations of a deleted user are kept.
delete_user_orphaning(udb, db, tdb, user_id, commitOk) ==
    IF commitOk
    THEN [users |-> {u \in udb : u.id # user_id}, bookings |-> db,
          tokens |-> {k \in tdb : k.user_id # user_id}]
    ELSE [users |-> udb, bookings |-> db, tokens |-> tdb]

\* db_session.delete(user) and commit: the relationships of User cascade
\* (models.py 42-45, cascade='all, delete-orphan'; ondelete='CASCADE' at
\* lines 97 and 146), so the user's tokens and reservations go with it.
delete_user(udb, db, tdb, user_id, commitOk) ==
    IF commitOk
    THEN [users |-> {u \in udb : u.id # user_id},
          bookings |-> {b \in db : b.user_id # user_id},
          tokens |-> {k \in tdb : k.user_id # user_id}]
    ELSE [users |-> udb, bookings |-> db, tokens |-> tdb]

\* ------------------------------------------------------------------ state
\* What the last call was and what it gave its caller: the returned value
\* (ret), the message of the raised exception (err, "" when none), the
\* identifier of the created or targeted reservation, and whether every
\* storage access of the call was answered (dbOk).
Last(op, booking_id, ret, err, dbOk) ==
    [op |-> op, booking_id |-> booking_id, ret |-> ret, err |-> err, dbOk |-> dbOk]

\* What the last call on the accounts, or the last request, was and what it
\* gave: the returned identifier or token (ret, 0 for none), the message
\* of the error (err, "" when none), and for a request the redirect target
\* or the status of the response (to).
Resp(op, ret, err, to) == [op |-> op, ret |-> ret, err |-> err, to |-> to]

NoReq == [user_id |-> 0, start_date |-> 0, end_date |-> 0]

Init ==
    /\ bookings = {}
    /\ nextId = 1
    /\ today = 0
    /\ session = [t \in Threads |-> EmptySession]
    /\ pc = [t \in Threads |-> "idle"]
    /\ req = [t \in Threads |-> NoReq]
    /\ last = Last("init", 0, FALSE, "", TRUE)
    /\ users = {}
    /\ nextUid = 1
    /\ tokens = {}
    /\ nextTok = 1
    /\ now = 0
    /\ web = 0
    /\ resp = Resp("init", 0, "", "")
    /\ mailer = NoMail

\* ---------------------------------------------------------------- actions
\* The outcomes of a storage access: answered (TRUE) or failed (FALSE); a
\* call that makes no storage access has nothing that can fail.
Outcomes(accessed) == IF accessed THEN BOOLEAN ELSE {TRUE}

\* The text of the exception of a storage access that failed, "" when it
\* was answered.
Texts(failed) == IF failed THEN DbErrors ELSE {""}

\* The calendar day changes.
NextDay ==
    /\ today < MaxDay
    /\ today' = today + 1
    /\ last' = Last("day", 0, FALSE, "", TRUE)
    /\ UNCHANGED <<bookings, nextId, session, pc, req>>
    /\ UNCHANGED <<authvars, mailer>>

\* Fault: listing the calendar purges the cancelled rows.
GetCalendarDataPurging(t, year) ==
    \E queryOk \in BOOLEAN :
    \E data \in get_calendar_data(bookings, year, queryOk) :
        /\ pc[t] = "idle"
        /\ bookings' = {b \in bookings : b.status # "cancelled"}
        /\ last' = Last("calendar", 0, data # <<>>, "", queryOk)
        /\ UNCHANGED <<nextId, today, session, pc, req>>
        /\ UNCHANGED <<authvars, mailer>>

GetCalendarData(t, year) ==
    \E queryOk \in BOOLEAN :
    \E data \in get_calendar_data(bookings, year, queryOk) :
        /\ pc[t] = "idle"
        /\ last' = Last("calendar", 0, data # <<>>, "", queryOk)
        /\ UNCHANGED <<bookings, nextId, today, session, pc, req>>
        /\ UNCHANGED <<authvars, mailer>>

CheckAvailability(t, start_date, end_date) ==
    \E queryOk \in Outcomes(end_date > start_date) :
        /\ pc[t] = "idle"
        /\ last' = Last("check", 0,
                        check_availability(bookings, start_date, end_date, queryOk),
                        "", queryOk)
        /\ UNCHANGED <<bookings, nextId, today, session, pc, req>>
        /\ UNCHANGED <<authvars, mailer>>

\* create_booking as one step: the call runs to completion.
CreateBooking(t, user_id, start_date, end_date) ==
    \E queryOk \in Outcomes(start_date >= today /\ end_date > start_date) :
    \E commitOk \in Outcomes(create_booking_validate(bookings, today, start_date,
                                                     end_date, queryOk) = "") :
    \E e \in Texts(~commitOk) :
        LET r == create_booking(bookings, nextId, session[t], today, user_id,
                                start_date, end_date, queryOk, commitOk, e)
        IN  /\ pc[t] = "idle"
            /\ \A b \in r.db : b.id \in StoreIds
            /\ bookings' = r.db
            /\ nextId' = r.nextId
            /\ session' = [session EXCEPT ![t] = r.session]
            /\ last' = Last("create", r.booking.id, r.err = "", r.err,
                            queryOk /\ commitOk)
            /\ UNCHANGED <<today, pc, req>>
            /\ UNCHANGED <<authvars, mailer>>

CancelBooking(t, booking_id, user_id) ==
    \E queryOk \in BOOLEAN :
    \E commitOk \in Outcomes(queryOk /\ \E b \in bookings :
                                  b.id = booking_id /\ b.user_id = user_id) :
    \E e \in Texts(~queryOk) :
        LET r == cancel_booking(bookings, nextId, session[t], booking_id, user_id,
                                queryOk, commitOk, e)
        IN  /\ pc[t] = "idle"
            /\ bookings' = r.db
            /\ session' = [session EXCEPT ![t] = r.session]
            /\ last' = Last("cancel", booking_id, r.ret, r.exc, queryOk /\ commitOk)
            /\ UNCHANGED <<nextId, today, pc, req>>
            /\ UNCHANGED <<authvars, mailer>>

\* create_booking in two steps, as two threads interleave them: the checks
\* of lines 144-157 ...
CreateBookingCheck(t, user_id, start_date, end_date) ==
    \E queryOk \in Outcomes(start_date >= today /\ end_date > start_date) :
        LET v == create_booking_validate(bookings, today, start_date, end_date, queryOk)
        IN  /\ pc[t] = "idle"
            /\ IF v # ""
               THEN /\ last' = Last("create", 0, FALSE, v, queryOk)
                    /\ UNCHANGED <<pc, req>>
               ELSE /\ pc' = [pc EXCEPT ![t] = "insert"]
                    /\ req' = [req EXCEPT ![t] = [user_id |-> user_id,
                                                  start_date |-> start_date,
                                                  end_date |-> end_date]]
                    /\ last' = Last("checked", 0, TRUE, "", queryOk)
            /\ UNCHANGED <<bookings, nextId, today, session>>
            /\ UNCHANGED <<authvars, mailer>>

\* ... and the insert of lines 159-176.
CreateBookingInsert(t) ==
    \E commitOk \in BOOLEAN :
    \E e \in Texts(~commitOk) :
        LET r == create_booking_insert(bookings, nextId, session[t], req[t].user_id,
                                       req[t].start_date, req[t].end_date, commitOk, e)
        IN  /\ pc[t] = "insert"
            /\ \A b \in r.db : b.id \in StoreIds
            /\ bookings' = r.db
            /\ nextId' = r.nextId
            /\ session' = [session EXCEPT ![t] = r.session]
            /\ pc' = [pc EXCEPT ![t] = "idle"]
            /\ req' = [req EXCEPT ![t] = NoReq]
            /\ last' = Last("create", r.booking.id, r.err = "", r.err, commitOk)
            /\ UNCHANGED today
            /\ UNCHANGED <<authvars, mailer>>

\* The thread that serves the calls when they come one after the other.
MainThread == "t1"

\* Every call runs to completion before the next one starts.
Next ==
    \/ NextDay
    \/ \E y \in Years : GetCalendarData(MainThread, y)
    \/ \E s, e \in Dates : CheckAvailability(MainThread, s, e)
    \/ \E u \in Users, s, e \in Dates : CreateBooking(MainThread, u, s, e)
    \/ \E id \in BookingIds, u \in Users : CancelBooking(MainThread, id, u)

Spec == Init /\ [][Next]_vars

\* Two threads, each in its own session, interleave the steps of their calls
\* within one day.
NextConc ==
    \/ \E t \in Threads, u \in Users, s, e \in Dates : CreateBookingCheck(t, u, s, e)
    \/ \E t \in Threads : CreateBookingInsert(t)
    \/ \E t \in Threads, id \in BookingIds, u \in Users : CancelBooking(t, id, u)

SpecConc == Init /\ [][NextConc]_vars

\* --------------------------------------------------- actions on accounts
\* datetime.utcnow() advances by one expiration period.
Tick ==
    /\ now < MaxNow * expiration_hours
    /\ now' = now + expiration_hours
    /\ resp' = Resp("tick", 0, "", "")
    /\ UNCHANGED <<users, nextUid, tokens, nextTok, web, pc, req>>
    /\ UNCHANGED <<bookvars, mailer>>

RegisterUser(email, password) ==
    \E queryOk \in Outcomes(validate_email(email) = "" /\ validate_password(password) = "") :
    \E commitOk \in Outcomes(LET v == register_user_check(users, email, password, queryOk, "")
                              IN  v.err = "" /\ v.exc = "") :
    \E e \in Texts(~queryOk \/ ~commitOk) :
        LET r == register_user(users, nextUid, email, password, queryOk, commitOk, e)
        IN  /\ r.user.id \in Users \cup {0}
            /\ users' = r.users
            /\ nextUid' = r.nextUid
            /\ resp' = Resp("register", r.user.id, IF r.exc # "" THEN r.exc ELSE r.err, "")
            /\ UNCHANGED <<tokens, nextTok, now, web, pc, req>>
            /\ UNCHANGED <<bookvars, mailer>>

GenerateVerificationToken(user_id) ==
    \E queryOk \in BOOLEAN :
    \E commitOk \in Outcomes(queryOk /\ user_by_id(users, user_id) # NoUser) :
    \E e \in Texts(~queryOk \/ ~commitOk) :
        LET r == generate_verification_token(users, tokens, nextTok, now, user_id,
                                             queryOk, commitOk, e)
        IN  /\ nextTok <= MaxTokens
            /\ tokens' = r.tokens
            /\ nextTok' = r.nextTok
            /\ resp' = Resp("token", r.ret, IF r.exc # "" THEN r.exc ELSE r.err, "")
            /\ UNCHANGED <<users, nextUid, now, web, pc, req>>
            /\ UNCHANGED <<bookvars, mailer>>

VerifyToken(token) ==
    \E queryOk \in Outcomes(token # 0) :
    \E commitOk \in Outcomes(queryOk /\ \E k \in tokens : k.token = token) :
    \E e \in Texts(~queryOk \/ ~commitOk) :
        LET r == verify_token(users, tokens, now, token, queryOk, commitOk, e)
        IN  /\ users' = r.users
            /\ tokens' = r.tokens
            /\ resp' = Resp("verify", r.ret, IF r.exc # "" THEN r.exc ELSE r.err, "")
            /\ UNCHANGED <<nextUid, nextTok, now, web, pc, req>>
            /\ UNCHANGED <<bookvars, mailer>>

AuthenticateUser(email, password) ==
    \E queryOk \in Outcomes(email # <<>> /\ password # "") :
    \E e \in Texts(~queryOk) :
        LET r == authenticate_user(users, email, password, queryOk, e)
        IN  /\ resp' = Resp("authenticate", r.user.id,
                            IF r.exc # "" THEN r.exc ELSE r.err, "")
            /\ UNCHANGED <<users, nextUid, tokens, nextTok, now, web, pc, req>>
            /\ UNCHANGED <<bookvars, mailer>>

\* POST /signin.
SignIn(email, password) ==
    \E queryOk \in Outcomes(web = 0 /\ strip(email) # <<>> /\ password # "") :
    \E e \in Texts(~queryOk) :
        LET r == signin(users, web, email, password, queryOk, e)
        IN  /\ web' = r.web
            /\ resp' = Resp("signin", r.web, r.err, r.to)
            /\ UNCHANGED <<users, nextUid, tokens, nextTok, now, pc, req>>
            /\ UNCHANGED <<bookvars, mailer>>

\* Fault: the session survives the sign-out.
SignOutKeeping ==
    /\ web' = web
    /\ resp' = Resp("signout", 0, "", "home")
    /\ UNCHANGED <<users, nextUid, tokens, nextTok, now, pc, req>>
    /\ UNCHANGED <<bookvars, mailer>>

\* GET /signout (app.py 365-388): session.clear().
SignOut ==
    /\ web' = 0
    /\ resp' = Resp("signout", 0, "", "home")
    /\ UNCHANGED <<users, nextUid, tokens, nextTok, now, pc, req>>
    /\ UNCHANGED <<bookvars, mailer>>

\* The calls on the accounts, one at a time.
NextAuth ==
    \/ Tick
    \/ \E email \in RawEmails, password \in Passwords : RegisterUser(email, password)
    \/ \E u \in Users \cup {0} : GenerateVerificationToken(u)
    \/ \E k \in TokenArgs : VerifyToken(k)
    \/ \E email \in RawEmails, password \in Passwords : AuthenticateUser(email, password)

SpecAuth == Init /\ [][NextAuth]_vars

\* register_user in two steps, as two threads interleave them: the
\* validations and the existence check of lines 102-118 ...
RegisterUserCheck(t, email, password) ==
    \E queryOk \in Outcomes(validate_email(email) = "" /\ validate_password(password) = "") :
    \E e \in Texts(~queryOk) :
        LET v == register_user_check(users, email, password, queryOk, e)
        IN  /\ pc[t] = "idle"
            /\ IF v.err # "" \/ v.exc # ""
               THEN /\ resp' = Resp("register", 0, IF v.exc # "" THEN v.exc ELSE v.err, "")
                    /\ UNCHANGED <<pc, req>>
               ELSE /\ nextUid + Cardinality({o \in Threads : pc[o] = "register"}) \in Users
                    /\ pc' = [pc EXCEPT ![t] = "register"]
                    /\ req' = [req EXCEPT ![t] = [email |-> v.email, password |-> password]]
                    /\ resp' = Resp("checked", 0, "", "")
            /\ UNCHANGED <<users, nextUid, tokens, nextTok, now, web>>
            /\ UNCHANGED <<bookvars, mailer>>

\* ... and the insert of lines 120-143.
RegisterUserInsert(t) ==
    \E commitOk \in BOOLEAN :
    \E e \in Texts(~commitOk) :
        LET r == register_user_insert(users, nextUid, req[t].email, req[t].password,
                                      commitOk, e)
        IN  /\ pc[t] = "register"
            /\ users' = r.users
            /\ nextUid' = r.nextUid
            /\ pc' = [pc EXCEPT ![t] = "idle"]
            /\ req' = [req EXCEPT ![t] = NoReq]
            /\ resp' = Resp("register", r.user.id, r.err, "")
            /\ UNCHANGED <<tokens, nextTok, now, web>>
            /\ UNCHANGED <<bookvars, mailer>>

\* Two threads interleave the steps of their registrations.
NextReg ==
    \/ \E t \in Threads, email \in RawEmails, password \in Passwords :
          RegisterUserCheck(t, email, password)
    \/ \E t \in Threads : RegisterUserInsert(t)

SpecReg == Init /\ [][NextReg]_vars

\* ------------------------------------------------------- the registration
\* POST /signup (app.py 165-252).
Signup(email, password, confirm_password) ==
    \E queryOk \in Outcomes(web = 0 /\ validate_email(strip(email)) = ""
                             /\ validate_password(password) = "") :
    \E commitOk \in Outcomes(LET v == register_user_check(users, strip(email), password,
                                                         queryOk, "")
                              IN  web = 0 /\ v.err = "" /\ v.exc = "") :
    \E e \in Texts(~queryOk \/ ~commitOk) :
    \E tokQueryOk \in Outcomes(FALSE), tokCommitOk \in Outcomes(FALSE), sent \in Outcomes(FALSE) :
        LET r == signup(users, nextUid, tokens, nextTok, now, web, email, password,
                        confirm_password, queryOk, commitOk, e,
                        tokQueryOk, tokCommitOk, sent)
        IN  /\ r.ret \in Users \cup {0}
            /\ users' = r.users
            /\ nextUid' = r.nextUid
            /\ tokens' = r.tokens
            /\ nextTok' = r.nextTok
            /\ resp' = Resp("signup", r.ret, r.err, r.to)
            /\ UNCHANGED <<now, web, pc, req>>
            /\ UNCHANGED <<bookvars, mailer>>

\* GET /verify/<token> (app.py 254-281).
VerifyEmail(token) ==
    \E queryOk \in Outcomes(token # 0) :
    \E commitOk \in Outcomes(queryOk /\ \E k \in tokens : k.token = token) :
    \E e \in Texts(~queryOk \/ ~commitOk) :
        LET r == verify_email(users, tokens, now, token, queryOk, commitOk, e)
        IN  /\ users' = r.users
            /\ tokens' = r.tokens
            /\ resp' = Resp("verify", r.ret, "", r.to)
            /\ UNCHANGED <<nextUid, nextTok, now, web, pc, req>>
            /\ UNCHANGED <<bookvars, mailer>>

\* The requests of a visitor who registers, follows the link and signs in.
NextSignup ==
    \/ \E email \in RawEmails, password, confirm_password \in Passwords :
          Signup(email, password, confirm_password)
    \/ \E token \in TokenArgs : VerifyEmail(token)
    \/ \E email \in RawEmails, password \in Passwords : SignIn(email, password)
    \/ SignOut
    \/ Tick

SpecSignup == Init /\ [][NextSignup]_vars

\* ----------------------------------------------------------- the requests
\* The accounts a request can meet: one verified, one not, one absent.
RouteTables ==
    {{User(1, <<"a">>, generate_password_hash("sailing-1"), TRUE)},
     {User(1, <<"a">>, generate_password_hash("sailing-1"), TRUE),
      User(2, <<"b">>, generate_password_hash("sailing-1"), FALSE)}}

\* The session cookie a request carries is an input of the request: none,
\* or that of any user.
InitRoutes ==
    /\ bookings = {}
    /\ nextId = 1
    /\ today = 0
    /\ session = [t \in Threads |-> EmptySession]
    /\ pc = [t \in Threads |-> "idle"]
    /\ req = [t \in Threads |-> NoReq]
    /\ last = Last("init", 0, FALSE, "", TRUE)
    /\ users \in RouteTables
    /\ nextUid = 3
    /\ tokens = {}
    /\ nextTok = 1
    /\ now = 0
    /\ web \in {0} \cup Users
    /\ resp = Resp("init", 0, "", "")
    /\ mailer = NoMail

\* A guarded request that the decorators answer themselves.
Refused(route) ==
    \E guardOk \in Outcomes(web # 0) :
        LET g == guarded(users, web, guardOk)
        IN  /\ ~g.run
            /\ web' = g.web
            /\ resp' = Resp(route, 0, g.msg, g.to)
            /\ UNCHANGED <<users, nextUid, tokens, nextTok, now, pc, req>>
            /\ UNCHANGED <<bookvars, mailer>>

\* GET /calendar (app.py 393-421).
Calendar ==
    \/ Refused("calendar")
    \/ \E queryOk \in BOOLEAN :
       \E data \in get_calendar_data(bookings, today \div YearLen, queryOk) :
           /\ guarded(users, web, TRUE).run
           /\ last' = Last("calendar", 0, data # <<>>, "", queryOk)
           /\ resp' = Resp("calendar", 0, "", "200")
           /\ UNCHANGED <<bookings, nextId, today, session>>
           /\ UNCHANGED <<users, nextUid, tokens, nextTok, now, web, pc, req, mailer>>

\* GET /book (app.py 423-446) and GET /forum (app.py 536-556): a page.
Page(route) ==
    \/ Refused(route)
    \/ /\ guarded(users, web, TRUE).run
       /\ resp' = Resp(route, 0, "", "200")
       /\ UNCHANGED <<users, nextUid, tokens, nextTok, now, web, pc, req>>
       /\ UNCHANGED <<bookvars, mailer>>

\* POST /book (app.py 423-534), with the removal of the session that ends
\* every request (app.py 60-71).
Book(form, start_date, end_date) ==
    \/ Refused("book")
    \/ \E queryOk \in Outcomes(form = "valid" /\ start_date >= today
                                /\ end_date > start_date) :
       \E commitOk \in Outcomes(form = "valid" /\
                   create_booking_validate(bookings, today, start_date,
                                           end_date, queryOk) = "") :
       \E e \in Texts(~commitOk) :
       \E userOk \in BOOLEAN, mail \in MailOutcomes :
           LET r == book(bookings, nextId, session[MainThread], today, web, form,
                         start_date, end_date, queryOk, commitOk, e, userOk, mail)
           IN  /\ guarded(users, web, TRUE).run
               /\ \A b \in r.db : b.id \in StoreIds
               /\ bookings' = r.db
               /\ nextId' = r.nextId
               /\ session' = [session EXCEPT ![MainThread] = EmptySession]
               /\ last' = IF r.called
                          THEN Last("create", r.booking.id, r.booking # None,
                                    IF r.booking # None THEN "" ELSE r.err,
                                    queryOk /\ commitOk)
                          ELSE last
               /\ resp' = Resp("book", r.booking.id, r.err, r.to)
               /\ UNCHANGED <<users, nextUid, tokens, nextTok, now, web, pc, req, today, mailer>>

\* The requests, one at a time.
NextRoutes ==
    \/ Calendar
    \/ \E route \in {"book form", "forum"} : Page(route)
    \/ \E form \in Forms, s, e \in Dates : Book(form, s, e)
    \/ \E email \in RawEmails, password \in Passwords : SignIn(email, password)
    \/ SignOut

SpecRoutes == InitRoutes /\ [][NextRoutes]_vars

\* ------------------------------------------------------------- the mailer
\* send_email(to, subject, body, html, max_retries) is called.
SendEmail(max_retries, initialised) ==
    /\ mailer.pc = "idle"
    /\ mailer' = send_email_enter(max_retries, initialised)
    /\ UNCHANGED <<bookvars, authvars, pc, req>>

\* One turn of the loop of send_email.
Attempt(sent) ==
    /\ mailer.pc = "loop"
    /\ send_email_continues(mailer)
    /\ mailer' = send_email_attempt(mailer, sent)
    /\ UNCHANGED <<bookvars, authvars, pc, req>>

\* The loop of send_email is left with the retries exhausted.
Exhausted ==
    /\ mailer.pc = "loop"
    /\ ~send_email_continues(mailer)
    /\ mailer' = send_email_exhausted(mailer)
    /\ UNCHANGED <<bookvars, authvars, pc, req>>

\* The caller has the result; the next call can be made.
Returned ==
    /\ mailer.pc = "done"
    /\ mailer' = NoMail
    /\ UNCHANGED <<bookvars, authvars, pc, req>>

NextMail ==
    \/ \E max_retries \in 0..MaxRetries, initialised \in BOOLEAN :
          SendEmail(max_retries, initialised)
    \/ \E sent \in BOOLEAN : Attempt(sent)
    \/ Exhausted
    \/ Returned

SpecMail == Init /\ [][NextMail]_vars

\* The thread that runs send_email keeps running, and mail.send and
\* time.sleep return or raise.
SpecMailLive ==
    /\ Init /\ [][NextMail]_vars
    /\ WF_vars(\E sent \in BOOLEAN : Attempt(sent))
    /\ WF_vars(Exhausted)

\* ------------------------------------------------- the owners of the rows
\* create_booking on a store that holds the users: the commit of a
\* reservation whose owner is not stored fails on the foreign key.
CreateBookingOwned(t, user_id, start_date, end_date) ==
    \E queryOk \in Outcomes(start_date >= today /\ end_date > start_date) :
    \E commitOk \in IF create_booking_validate(bookings, today, start_date,
                                               end_date, queryOk) = ""
                     THEN {c \in BOOLEAN : c => foreign_key_holds(users, user_id)}
                     ELSE {TRUE} :
    \E e \in Texts(~commitOk) :
        LET r == create_booking(bookings, nextId, session[t], today, user_id,
                                start_date, end_date, queryOk, commitOk, e)
        IN  /\ pc[t] = "idle"
            /\ \A b \in r.db : b.id \in StoreIds
            /\ bookings' = r.db
            /\ nextId' = r.nextId
            /\ session' = [session EXCEPT ![t] = r.session]
            /\ last' = Last("create", r.booking.id, r.err = "", r.err,
                            queryOk /\ commitOk)
            /\ UNCHANGED <<today, pc, req>>
            /\ UNCHANGED <<authvars, mailer>>

\* A stored user is deleted through the session.
DeleteUser(user_id) ==
    \E commitOk \in BOOLEAN :
        LET r == delete_user(users, bookings, tokens, user_id, commitOk)
        IN  /\ foreign_key_holds(users, user_id)
            /\ users' = r.users
            /\ bookings' = r.bookings
            /\ tokens' = r.tokens
            /\ UNCHANGED <<nextId, today, session, last, nextUid, nextTok, now, web,
                           resp, pc, req, mailer>>

\* A store with two users, and a token of the second or none.
InitCascade ==
    /\ bookings = {}
    /\ nextId = 1
    /\ today = 0
    /\ session = [t \in Threads |-> EmptySession]
    /\ pc = [t \in Threads |-> "idle"]
    /\ req = [t \in Threads |-> NoReq]
    /\ last = Last("init", 0, FALSE, "", TRUE)
    /\ users = {User(1, <<"a">>, generate_password_hash("sailing-1"), TRUE),
                User(2, <<"b">>, generate_password_hash("sailing-1"), FALSE)}
    /\ nextUid = 3
    /\ tokens \in {{}, {VerificationToken(1, 2, expiration_hours)}}
    /\ nextTok = 2
    /\ now = 0
    /\ web = 0
    /\ resp = Resp("init", 0, "", "")
    /\ mailer = NoMail

\* The calls on a store that holds users, tokens and reservations.
NextCascade ==
    \/ \E u \in Users, s, e \in Dates : CreateBookingOwned(MainThread, u, s, e)
    \/ \E id \in BookingIds, u \in Users : CancelBooking(MainThread, id, u)
    \/ \E u \in Users : DeleteUser(u)

SpecCascade == InitCascade /\ [][NextCascade]_vars

\* ================================================================ claims
\* The rows with status 'confirmed'.
Confirmed == {b \in bookings : b.status = "confirmed"}

\* Half-open ranges [s1, e1) and [s2, e2) intersect.
RangesOverlap(s1, e1, s2, e2) == s1 < e2 /\ e1 > s2

\* Some confirmed row intersects [s, e).
Blocked(s, e) ==
    \E b \in Confirmed : RangesOverlap(b.start_date, b.end_date, s, e)

Ids == {b.id : b \in bookings}

\* The result of create_booking in the current state, called in the session
\* of the main thread.
CreateResult(u, s, e, queryOk, commitOk, x) ==
    create_booking(bookings, nextId, session[MainThread], today, u, s, e,
                   queryOk, commitOk, x)

\* The result of cancel_booking in the current state.
CancelResult(id, u, queryOk, commitOk, x) ==
    cancel_booking(bookings, nextId, session[MainThread], id, u, queryOk, commitOk, x)

\* C1: with every call run to completion before the next one starts, no two
\* distinct confirmed reservations overlap.
C1_NoConfirmedOverlap ==
    \A a, b \in Confirmed :
        a.id # b.id =>
            ~(a.start_date < b.end_date /\ a.end_date > b.start_date)

\* A second confirmed reservation has just been created, adjacent to the
\* first.
C1_Witness ==
    /\ \E a, b \in Confirmed : a.id # b.id /\ a.end_date = b.start_date
    /\ last.op = "create" /\ last.ret

\* C2: when the steps of two create_booking calls interleave, a call whose
\* insert is committed has stored a reservation that overlaps no other
\* confirmed reservation: of two racing calls for overlapping ranges at most
\* one succeeds.
C2_RaceAtMostOneSucceeds ==
    (last.op = "create" /\ last.ret) =>
        \A n \in bookings :
            n.id = last.booking_id =>
                \A b \in Confirmed :
                    b.id # n.id =>
                        ~RangesOverlap(n.start_date, n.end_date,
                                       b.start_date, b.end_date)

\* C3: with the store reachable, check_availability(start, end) is True
\* exactly when end > start and no confirmed reservation has
\* stored.start < end and stored.end > start; cancelled reservations never
\* count, and a range with end <= start is never available.
C3_AvailabilityIff ==
    \A s, e \in Dates :
        check_availability(bookings, s, e, TRUE)
            <=> (e > s /\ ~\E b \in bookings :
                              /\ b.status = "confirmed"
                              /\ b.start_date < e
                              /\ b.end_date > s)

\* check_availability has answered True while a cancelled reservation
\* covers every date, so the range it was asked about overlaps that one.
C3_Witness ==
    /\ last.op = "check" /\ last.ret /\ last.dbOk
    /\ \E b \in bookings :
          b.status = "cancelled" /\ b.start_date = 0 /\ b.end_date = MaxDate

\* C4: a range that starts on the end date of a confirmed reservation, or
\* ends on its start date, and that no confirmed reservation overlaps, is
\* booked successfully when its start is not before today.
C4_AdjacentSucceeds ==
    \A u \in Users, s, e \in Dates, x \in DbErrors :
        (/\ s >= today /\ e > s
         /\ \E a \in Confirmed : s = a.end_date \/ e = a.start_date
         /\ ~Blocked(s, e))
        => LET r == CreateResult(u, s, e, TRUE, TRUE, x)
           IN  r.err = "" /\ r.booking \in r.db /\ r.booking.status = "confirmed"

\* A reservation has just been created that starts on the day another
\* confirmed one ends.
C4_Witness ==
    /\ last.op = "create" /\ last.ret
    /\ \E n, a \in Confirmed :
          n.id = last.booking_id /\ a.id # n.id /\ n.start_date = a.end_date

\* C5 as stated: every range (end after start) that overlaps a confirmed
\* reservation is refused with the conflict error and nothing is stored.
C5_OverlapAlwaysConflict ==
    \A u \in Users, s, e \in Dates, q, c \in BOOLEAN, x \in DbErrors :
        (e > s /\ Blocked(s, e))
        => LET r == CreateResult(u, s, e, q, c, x)
           IN  r.err = ErrConflict /\ r.db = bookings

\* C5, amended: a range with end after start and start not before today
\* that overlaps a confirmed reservation, whoever owns it, is refused with
\* the conflict error, whose message differs from those of the validation
\* errors and of the storage failure, and nothing is stored.
C5_OverlapConflict ==
    /\ \A u \in Users, s, e \in Dates, q, c \in BOOLEAN, x \in DbErrors :
          (s >= today /\ e > s /\ Blocked(s, e))
          => LET r == CreateResult(u, s, e, q, c, x)
             IN  /\ r.err = ErrConflict
                 /\ r.booking = None
                 /\ r.db = bookings /\ r.nextId = nextId
    /\ ErrConflict \notin {ErrPast, ErrRange, ""}
    /\ \A x \in DbErrors : ErrConflict # ErrFailed(x)

\* create_booking has raised the conflict error with the store answering:
\* the requested range overlaps a stored confirmed reservation.
C5_Witness ==
    /\ last.op = "create" /\ last.err = ErrConflict /\ last.dbOk
    /\ \E b \in Confirmed : TRUE

\* C6: a start date before today is refused as such whatever the end date
\* and the availability; a start date equal to today is not refused on
\* that ground.
C6_PastStartRejected ==
    \A u \in Users, s, e \in Dates, q, c \in BOOLEAN, x \in DbErrors :
        LET r == CreateResult(u, s, e, q, c, x)
        IN  /\ s < today => (r.err = ErrPast /\ r.db = bookings)
            /\ s = today => r.err # ErrPast
            /\ (s = today /\ e > s /\ ~Blocked(s, e) /\ q /\ c) => r.err = ""

\* A request has been refused for its past start date.
C6_Witness == last.op = "create" /\ last.err = ErrPast /\ today > 0

\* C7: a successful create_booking adds exactly one row, with an identifier
\* no row had, status 'confirmed', the given owner and dates, returns that
\* row, and leaves every other row as it was.
C7_CreatePersistsOne ==
    /\ [](\A u \in Users, s, e \in Dates, q, c \in BOOLEAN, x \in DbErrors :
            LET r == CreateResult(u, s, e, q, c, x)
            IN  r.err = "" =>
                  /\ r.booking.id \notin Ids
                  /\ r.booking.id # None.id
                  /\ r.booking = Booking(r.booking.id, u, s, e, "confirmed")
                  /\ r.db = bookings \cup {r.booking})
    /\ [][(last'.op = "create" /\ last'.ret) =>
            \E n \in bookings' :
                /\ n.id = last'.booking_id
                /\ n.id \notin Ids
                /\ n.status = "confirmed"
                /\ bookings' = bookings \cup {n}]_vars

\* A reservation has just been created beside an older one.
C7_Witness ==
    /\ last.op = "create" /\ last.ret
    /\ Cardinality(bookings) = 2

\* C8: a create_booking call that ends in an error leaves the stored rows as
\* they were and nothing pending in the session.
C8_FailedCreateChangesNothing ==
    /\ [](\A t \in Threads : session[t] = EmptySession)
    /\ [][(last'.op = "create" /\ ~last'.ret) =>
            (bookings' = bookings /\ nextId' = nextId /\ session' = session)]_vars

\* The write of a create_booking call has failed while rows are stored.
C8_Witness ==
    /\ last.op = "create" /\ ~last.ret /\ ~last.dbOk
    /\ \E x \in DbErrors : last.err = ErrFailed(x)
    /\ bookings # {}

\* C9: for a reservation the caller does not own, cancel_booking gives what
\* it gives for an identifier that names no row (False when the lookup is
\* answered) and changes nothing.
C9_UnauthorizedAsNotFound ==
    \A b \in bookings, u \in Users, q, c \in BOOLEAN, x \in DbErrors :
        b.user_id # u =>
            LET r == CancelResult(b.id, u, q, c, x)
                missing == CancelResult(0, u, q, c, x)
            IN  /\ 0 \notin Ids
                /\ r.ret = missing.ret /\ r.exc = missing.exc
                /\ r.db = bookings /\ r.session = session[MainThread]
                /\ q => (r.ret = FALSE /\ r.exc = "")

\* cancel_booking has returned False for a stored, confirmed reservation,
\* with the store answering: the caller was not its owner.
C9_Witness ==
    /\ last.op = "cancel" /\ ~last.ret /\ last.dbOk
    /\ \E b \in Confirmed : b.id = last.booking_id

\* C10: right after cancel_booking has returned True, the reservation is
\* cancelled, and when no confirmed reservation overlaps its range,
\* check_availability on the range is True and create_booking for the same
\* range succeeds if its start is not before today.
C10_CancelFreesRange ==
    (last.op = "cancel" /\ last.ret) =>
        \E b \in bookings :
            /\ b.id = last.booking_id
            /\ b.status = "cancelled"
            /\ ~Blocked(b.start_date, b.end_date) =>
                 /\ check_availability(bookings, b.start_date, b.end_date, TRUE)
                 /\ b.start_date >= today =>
                      \A u \in Users, x \in DbErrors :
                          CreateResult(u, b.start_date, b.end_date, TRUE, TRUE, x).err = ""

\* The owner has just cancelled a reservation whose range is now free and
\* starts today or later.
C10_Witness ==
    /\ last.op = "cancel" /\ last.ret
    /\ \E b \in bookings :
          /\ b.id = last.booking_id
          /\ b.start_date >= today
          /\ ~Blocked(b.start_date, b.end_date)
          /\ \E o \in Confirmed : o.id # b.id

\* C11: cancel_booking by the owner on a reservation that is already
\* cancelled returns True, with the store answering, and stores what was
\* stored before the call.
C11_CancelIdempotent ==
    \A b \in bookings :
        b.status = "cancelled" =>
            LET r == CancelResult(b.id, b.user_id, TRUE, TRUE, "")
            IN  /\ r.ret /\ r.exc = ""
                /\ r.db = bookings
                /\ r.session = session[MainThread]

\* The owner's cancel_booking has returned True and the reservation is
\* cancelled: the state a second call by the owner starts from and ends in.
C11_Witness ==
    /\ last.op = "cancel" /\ last.ret /\ last.dbOk
    /\ \E b \in bookings : b.id = last.booking_id /\ b.status = "cancelled"

\* C12: a reservation is 'confirmed' when create_booking stores it, the
\* only change of status a booking call makes is from 'confirmed' to
\* 'cancelled', and a cancelled reservation is cancelled in every later
\* state.
C12_StatusLifecycle ==
    /\ [](\A b \in bookings : b.status \in {"confirmed", "cancelled"})
    /\ [][/\ \A n \in bookings' : n.id \notin Ids => n.status = "confirmed"
          /\ \A b \in bookings : \A n \in bookings' :
                n.id = b.id =>
                    \/ n.status = b.status
                    \/ b.status = "confirmed" /\ n.status = "cancelled"
          /\ \A b \in bookings :
                b.status = "cancelled" =>
                    \E n \in bookings' : n.id = b.id /\ n.status = "cancelled"
          /\ bookings' # bookings => last'.op \in {"create", "cancel"}]_vars

\* A reservation has been created after another one was cancelled, and the
\* cancelled one is still cancelled.
C12_Witness ==
    /\ last.op = "create" /\ last.ret
    /\ \E b, n \in bookings :
          /\ b.status = "cancelled" /\ b.id < n.id
          /\ n.id = last.booking_id /\ n.status = "confirmed"

\* C13: no booking call changes the identifier, owner, start date or end
\* date of a stored reservation or removes a reservation; cancel_booking
\* changes nothing but the status of the reservation it is called for.
C13_RowsImmutable ==
    /\ [](\A a, b \in bookings : a.id = b.id => a = b)
    /\ [](\A id \in BookingIds, u \in Users, q, c \in BOOLEAN, x \in DbErrors :
            LET r == CancelResult(id, u, q, c, x)
            IN  /\ \A b \in bookings : b.id # id => b \in r.db
                /\ \A n \in r.db :
                      \E b \in bookings : n = [b EXCEPT !.status = n.status])
    /\ [][/\ \A b \in bookings :
                \E n \in bookings' : n = [b EXCEPT !.status = n.status]
          /\ last'.op = "cancel" =>
                /\ nextId' = nextId
                /\ Cardinality(bookings') = Cardinality(bookings)
                /\ \A b \in bookings :
                      b.id # last'.booking_id => b \in bookings']_vars

\* The owner has just cancelled one of two reservations; the other one
\* belongs to another user and is confirmed.
C13_Witness ==
    /\ last.op = "cancel" /\ last.ret
    /\ \E b, o \in bookings :
          /\ b.id = last.booking_id /\ b.status = "cancelled"
          /\ o.user_id # b.user_id /\ o.status = "confirmed"

\* C14: every stored reservation ends after it starts.
C14_EndAfterStart == \A b \in bookings : b.end_date > b.start_date

\* A request whose end is not after its start has been refused while
\* reservations are stored.
C14_Witness ==
    /\ last.op = "create" /\ last.err = ErrRange
    /\ bookings # {}

\* C15: when the store does not answer, check_availability returns False
\* for every range and raises nothing.
C15_CheckFailsClosed ==
    /\ \A s, e \in Dates : check_availability(bookings, s, e, FALSE) = FALSE
    /\ (last.op = "check" /\ ~last.dbOk) => (~last.ret /\ last.err = "")

\* check_availability has met a storage failure while no reservation is
\* confirmed: with the store answering the range would be available.
C15_Witness ==
    /\ last.op = "check" /\ ~last.dbOk
    /\ Confirmed = {} /\ bookings # {}

\* C16: with the store answering, get_calendar_data(year) lists exactly the
\* stored reservations, confirmed or cancelled, with start <= 31 December
\* and end >= 1 January of the year, each once, as the row's own fields
\* with is_available False, in ascending order of start date; a
\* reservation that spans the boundary of two years is listed for both.
C16_CalendarListing ==
    \A y \in Years :
        /\ get_calendar_data(bookings, y, TRUE) # {}
        /\ \A data \in get_calendar_data(bookings, y, TRUE) :
              LET listed == {data[i].id : i \in DOMAIN data}
                  Row(id) == CHOOSE b \in bookings : b.id = id
              IN  /\ listed = {b.id : b \in {o \in bookings :
                                                 /\ o.start_date <= end_of_year(y)
                                                 /\ o.end_date >= start_of_year(y)}}
                  /\ Len(data) = Cardinality(listed)
                  /\ \A i \in DOMAIN data :
                        /\ data[i].status = Row(data[i].id).status
                        /\ data[i].user_id = Row(data[i].id).user_id
                        /\ data[i].start_date = isoformat(Row(data[i].id).start_date)
                        /\ data[i].end_date = isoformat(Row(data[i].id).end_date)
                        /\ data[i].is_available = FALSE
                  /\ \A i, j \in DOMAIN data :
                        i < j => Row(data[i].id).start_date <= Row(data[j].id).start_date
                  /\ \A b \in bookings :
                        (/\ y + 1 \in Years
                         /\ b.start_date <= end_of_year(y)
                         /\ b.end_date >= start_of_year(y + 1))
                        => /\ b.id \in listed
                           /\ \A next \in get_calendar_data(bookings, y + 1, TRUE) :
                                 \E i \in DOMAIN next : next[i].id = b.id

\* The calendar has been listed while a cancelled and a confirmed
\* reservation are stored, one of them across the boundary of two years.
C16_Witness ==
    /\ last.op = "calendar" /\ last.ret /\ last.dbOk
    /\ \E b, n \in bookings : b.status = "cancelled" /\ n.status = "confirmed"
    /\ \E b \in bookings :
          b.start_date <= end_of_year(0) /\ b.end_date >= start_of_year(1)

\* C17: when the query of get_calendar_data fails, the call returns the
\* empty list and raises nothing.
C17_CalendarFailsEmpty ==
    /\ \A y \in Years : get_calendar_data(bookings, y, FALSE) = {<<>>}
    /\ (last.op = "calendar" /\ ~last.dbOk) => (~last.ret /\ last.err = "")

\* get_calendar_data has met a storage failure while reservations are
\* stored.
C17_Witness ==
    /\ last.op = "calendar" /\ ~last.dbOk
    /\ Cardinality(bookings) = 2

\* C18 as stated: no booking call lets the exception of a failed storage
\* access reach its caller; a failure at any storage access, the lookup of
\* cancel_booking included, ends in False, the empty list or the
\* creation-failure error.
C18_NoRawStorageException ==
    /\ last.err \notin DbErrors
    /\ (last.op = "cancel" /\ ~last.dbOk) => (last.err = "" /\ ~last.ret)

\* C19 as stated: the error create_booking has raised after a failed write
\* is the one the same call raises when the storage error has any other
\* text.
C19_ErrorHidesStorageText ==
    (/\ last.op = "create" /\ ~last.ret /\ ~last.dbOk
     /\ last.err \notin {ErrPast, ErrRange, ErrConflict})
    => \A x \in DbErrors : last.err = ErrFailed(x)

\* C20: check_availability and get_calendar_data, answered or failed, leave
\* the stored reservations, the identifier sequence and the session as
\* they were.
C20_ReadsArePure ==
    [][last'.op \in {"check", "calendar"} =>
          (bookings' = bookings /\ nextId' = nextId /\ session' = session)]_vars

\* check_availability has answered "unavailable" while a confirmed and a
\* cancelled reservation are stored.
C20_Witness ==
    /\ last.op = "check" /\ ~last.ret /\ last.dbOk
    /\ \E b, n \in bookings : b.status = "cancelled" /\ n.status = "confirmed"

\* C26: create_booking checks the start date against today, then the end
\* date against the start date, then the availability; a request that
\* fails several checks gets the error of the first of them, and when a
\* date check fails the availability query is not made: the outcome does
\* not depend on the store.
C26_ValidationOrder ==
    /\ \A u \in Users, s, e \in Dates, q, c \in BOOLEAN, x \in DbErrors :
          LET r == CreateResult(u, s, e, q, c, x)
          IN  /\ s < today => r.err = ErrPast
              /\ (s >= today /\ e <= s) => r.err = ErrRange
              /\ (s >= today /\ e > s /\ (Blocked(s, e) \/ ~q)) => r.err = ErrConflict
              /\ (s < today \/ e <= s) => r = CreateResult(u, s, e, ~q, ~c, x)
    /\ (last.op = "create" /\ last.err \in {ErrPast, ErrRange}) => last.dbOk

\* A request has been refused for its past start date while a confirmed
\* reservation starts before today: a request for that range fails the
\* first and the third check.
C26_Witness ==
    /\ last.op = "create" /\ last.err = ErrPast
    /\ \E b \in Confirmed : b.start_date < today

\* C27: when the commit of cancel_booking fails, the call returns False,
\* the session is rolled back, the reservation is stored as it was and, if
\* it was confirmed, ranges that overlap it stay unavailable.
C27_FailedCancelRolledBack ==
    /\ \A b \in bookings, x \in DbErrors :
          LET r == CancelResult(b.id, b.user_id, TRUE, FALSE, x)
          IN  /\ r.ret = FALSE /\ r.exc = ""
              /\ r.db = bookings
              /\ r.session = EmptySession
              /\ b.status = "confirmed" =>
                    \A s, e \in Dates :
                        RangesOverlap(b.start_date, b.end_date, s, e)
                            => ~check_availability(r.db, s, e, TRUE)
    /\ (last.op = "cancel" /\ ~last.dbOk /\ last.err = "")
          => (~last.ret /\ session[MainThread] = EmptySession)

\* The commit of the owner's cancel_booking has failed and the
\* reservation is confirmed.
C27_Witness ==
    /\ last.op = "cancel" /\ ~last.ret /\ ~last.dbOk /\ last.err = ""
    /\ \E b \in Confirmed : b.id = last.booking_id

\* C28: when the availability query made inside create_booking fails,
\* create_booking raises the conflict error, the one it raises for an
\* overlap, and stores nothing.
C28_CheckFailureIsConflict ==
    /\ \A u \in Users, s, e \in Dates, c \in BOOLEAN, x \in DbErrors :
          (s >= today /\ e > s) =>
              LET r == CreateResult(u, s, e, FALSE, c, x)
              IN  /\ r.err = ErrConflict
                  /\ r.err # ErrFailed(x)
                  /\ r.booking = None
                  /\ r.db = bookings /\ r.nextId = nextId
    /\ (last.op = "create" /\ last.err = ErrConflict) => ~last.ret

\* create_booking has raised the conflict error for a failed query while
\* no reservation is confirmed.
C28_Witness ==
    /\ last.op = "create" /\ last.err = ErrConflict /\ ~last.dbOk
    /\ Confirmed = {}

\* The identifiers of the stored users, and the stored tokens' values.
UserIds == {u.id : u \in users}
StoredTokens == {k.token : k \in tokens}

\* The token's time of expiry is before t.
ExpiredAt(k, t) == t > k.expires_at

\* The result of verify_token in the current state.
VerifyResult(token, queryOk, commitOk, x) ==
    verify_token(users, tokens, now, token, queryOk, commitOk, x)

\* C23: a verification token is used once. verify_token with a stored,
\* unexpired token marks its user verified, returns the user's id and
\* deletes the token; a token that is not stored gives None and changes
\* nothing, and a deleted token is never stored again.
C23_TokenSingleUse ==
    /\ [](\A k \in tokens :
            ~ExpiredAt(k, now) =>
                LET r == VerifyResult(k.token, TRUE, TRUE, "")
                IN  /\ r.ret = k.user_id /\ r.ret \in UserIds
                    /\ r.tokens = tokens \ {k}
                    /\ \A u \in r.users : u.id = k.user_id => u.is_verified
                    /\ LET again == verify_token(r.users, r.tokens, now, k.token,
                                                 TRUE, TRUE, "")
                       IN  /\ again.ret = 0 /\ again.err = "" /\ again.exc = ""
                           /\ again.users = r.users /\ again.tokens = r.tokens)
    /\ [](\A t \in TokenArgs, c \in BOOLEAN, x \in DbErrors :
            t \notin StoredTokens =>
                LET r == VerifyResult(t, TRUE, c, x)
                IN  /\ r.ret = 0 /\ r.err = "" /\ r.exc = ""
                    /\ r.users = users /\ r.tokens = tokens)
    /\ [][/\ \A k \in tokens' : k \in tokens \/ k.token = nextTok
          /\ nextTok' >= nextTok
          /\ (resp'.op = "verify" /\ resp'.ret # 0) =>
                \E k \in tokens :
                    /\ k.user_id = resp'.ret
                    /\ tokens' = tokens \ {k}
                    /\ k.token \notin {j.token : j \in tokens'}]_vars

\* The only token issued has verified its user and is deleted, and a
\* verify_token call made since has returned None.
C23_Witness ==
    /\ resp.op = "verify" /\ resp.ret = 0 /\ resp.err = ""
    /\ tokens = {} /\ nextTok = 2
    /\ \E u \in users : u.is_verified

\* C29: verify_token with an expired token returns None and leaves the
\* users as they are; it deletes the token when the store takes the
\* delete; the clock never goes back, so an expired token stays expired
\* and verifies nobody later.
C29_ExpiredTokenRejected ==
    /\ [](\A k \in tokens, c \in BOOLEAN, x \in DbErrors :
            ExpiredAt(k, now) =>
                LET r == VerifyResult(k.token, TRUE, c, x)
                IN  /\ r.ret = 0 /\ r.err = "" /\ r.exc = ""
                    /\ r.users = users
                    /\ r.tokens = IF c THEN tokens \ {k} ELSE tokens)
    /\ [][/\ now' >= now
          /\ \A k \in tokens : ExpiredAt(k, now) => ExpiredAt(k, now')
          /\ (resp'.op = "verify" /\ resp'.ret # 0) =>
                \A k \in tokens \ tokens' : ~ExpiredAt(k, now)
          /\ \A k \in tokens :
                ExpiredAt(k, now) =>
                    \A u \in users' : u.id = k.user_id /\ u.is_verified =>
                        \/ \E o \in users : o.id = u.id /\ o.is_verified
                        \/ \E j \in tokens \ tokens' :
                              j.user_id = u.id /\ ~ExpiredAt(j, now)]_vars

\* An expired token has been deleted: tokens were issued, none is stored,
\* the clock is past the first expiry and no user is verified.
C29_Witness ==
    /\ resp.op = "verify" /\ resp.ret = 0 /\ resp.err = ""
    /\ tokens = {} /\ nextTok > 1 /\ now > expiration_hours
    /\ users # {} /\ \A u \in users : ~u.is_verified

\* C30: a user is unverified after register_user; a user becomes verified
\* only in a verify_token call that returns that user's id and consumes a
\* stored, unexpired token issued to that user; no call of register_user,
\* generate_verification_token, verify_token or authenticate_user makes a
\* verified user unverified or removes a user.
C30_VerifiedFlag ==
    /\ [](\A email \in RawEmails, password \in Passwords, q, c \in BOOLEAN :
            LET r == register_user(users, nextUid, email, password, q, c, "")
            IN  r.user # NoUser => (~r.user.is_verified /\ r.user \in r.users))
    /\ [][/\ \A v \in users' : v.id \notin UserIds =>
                (~v.is_verified /\ resp'.op = "register" /\ resp'.ret = v.id)
          /\ \A u \in users :
                \E v \in users' :
                    /\ v.id = u.id
                    /\ u.is_verified => v.is_verified
                    /\ (~u.is_verified /\ v.is_verified) =>
                          /\ resp'.op = "verify" /\ resp'.ret = u.id
                          /\ \E k \in tokens \ tokens' :
                                k.user_id = u.id /\ ~ExpiredAt(k, now)]_vars

\* verify_token has just verified one user while another, registered as
\* well, is unverified.
C30_Witness ==
    /\ resp.op = "verify" /\ resp.ret # 0
    /\ \E u, o \in users :
          u.id = resp.ret /\ u.is_verified /\ o.id # u.id /\ ~o.is_verified

\* C25: after any interleaving of register_user calls no two stored users
\* have the same lower-cased address. A registration for an address that
\* is stored, in any letter case, raises 'already registered' and adds no
\* user, at the existence check or, for a call that passed the check
\* before the other one committed, at the insert: of two racing
\* registrations of one address at most one returns a user.
C25_UniqueEmail ==
    /\ [](\A u, v \in users : lower(u.email) = lower(v.email) => u = v)
    /\ [](\A email \in RawEmails, password \in Passwords, c \in BOOLEAN :
            (/\ validate_email(email) = "" /\ validate_password(password) = ""
             /\ \E u \in users : u.email = lower(email))
            => LET r == register_user(users, nextUid, email, password, TRUE, c, "")
               IN  r.err = ErrRegistered /\ r.user = NoUser /\ r.users = users)
    /\ [](\A t \in Threads :
            (pc[t] = "register" /\ \E u \in users : u.email = req[t].email)
            => LET r == register_user_insert(users, nextUid, req[t].email,
                                             req[t].password, TRUE, "")
               IN  r.err = ErrRegistered /\ r.user = NoUser /\ r.users = users)
    /\ [][(resp'.op = "register" /\ resp'.ret # 0) =>
            \E n \in users' :
                /\ n.id = resp'.ret
                /\ users' = users \cup {n}
                /\ \A u \in users : lower(u.email) # lower(n.email)]_vars

\* One of two racing registrations of the same address has committed; the
\* other one has passed the existence check and is at its insert.
C25_Witness ==
    /\ resp.op = "register" /\ resp.ret # 0
    /\ \E t \in Threads :
          pc[t] = "register" /\ \E u \in users : u.id = resp.ret /\ u.email = req[t].email

\* The guarded routes, as the responses name them.
GuardedRoutes == {"calendar", "book form", "book", "forum"}

\* The session user is a stored, verified user.
SessionVerified(udb, user_id) == \E u \in udb : u.id = user_id /\ u.is_verified

\* C22: on the guarded routes a request without a session user is
\* redirected to sign-in whatever the storage holds or answers, a request
\* of a stored but unverified session user is redirected to home, and the
\* handler runs (a page is served, get_calendar_data or create_booking is
\* called, the reservations change) only when the session user is a stored,
\* verified user.
C22_GuardOrder ==
    /\ [](\A user_id \in {0} \cup Users, queryOk \in BOOLEAN :
            LET g == guarded(users, user_id, queryOk)
            IN  /\ user_id = 0 => (~g.run /\ g.to = "signin")
                /\ (queryOk /\ \E u \in users : u.id = user_id /\ ~u.is_verified)
                       => (~g.run /\ g.to = "home" /\ g.web = user_id)
                /\ g.run => SessionVerified(users, user_id))
    /\ [][/\ (resp' # resp /\ resp'.op \in GuardedRoutes /\ web = 0)
                => (resp'.to = "signin" /\ UNCHANGED bookvars)
          /\ (resp' # resp /\ resp'.op \in GuardedRoutes /\
                 \E u \in users : u.id = web /\ ~u.is_verified)
                => (/\ resp'.to = "home" \/ (resp'.to = "signin" /\ web' = 0)
                    /\ UNCHANGED bookvars)
          /\ (bookings' # bookings \/ last' # last \/
                 (resp' # resp /\ resp'.op \in GuardedRoutes /\
                  resp'.to \notin {"signin", "home"}))
                => SessionVerified(users, web)]_vars

\* A request of POST /book of an unverified session user has been sent
\* home and nothing is stored.
C22_Witness ==
    /\ resp.op = "book" /\ resp.to = "home"
    /\ \E u \in users : u.id = web /\ ~u.is_verified
    /\ bookings = {} /\ last.op = "init"

\* C24: authenticate_user returns a user only when that user is stored
\* under the lower-cased, trimmed email, the password matches and the user
\* is verified; with the credentials of an unverified user it raises the
\* verification-required error; and a request puts a user_id in the session
\* only in POST /signin and only that of a verified user.
C24_OnlyVerifiedSignIn ==
    /\ [](\A email \in RawEmails, password \in Passwords, queryOk \in BOOLEAN,
             e \in DbErrors :
            LET a == authenticate_user(users, email, password, queryOk, e)
                known == {u \in users : u.email = strip(lower(email))}
            IN  /\ a.user # NoUser =>
                      /\ a.user \in known
                      /\ check_password(a.user, password)
                      /\ a.user.is_verified
                      /\ a.err = "" /\ a.exc = ""
                /\ (/\ queryOk /\ email # <<>> /\ password # ""
                    /\ \E u \in known : check_password(u, password) /\ ~u.is_verified)
                      => (a.user = NoUser /\ a.err = ErrUnverified))
    /\ [][(web' # web /\ web' # 0)
            => (/\ web = 0
                /\ resp'.op = "signin" /\ resp'.ret = web' /\ resp'.to = "home"
                /\ SessionVerified(users, web'))]_vars

\* POST /signin with the credentials of the unverified user has been
\* refused with the verification-required error and the session is empty.
C24_Witness ==
    /\ resp.op = "signin" /\ resp.to = "401" /\ resp.err = ErrUnverified
    /\ web = 0
    /\ \E u \in users : ~u.is_verified /\ check_password(u, "sailing-1")

\* C21: in POST /book, once create_booking has succeeded, a confirmation
\* that is not sent or whose sending raises leaves the reservation stored
\* with status 'confirmed' and the request ends with the redirect to the
\* calendar.
C21_NotificationBestEffort ==
    /\ [](\A user_id \in Users, start_date, end_date \in Dates,
             queryOk, commitOk \in BOOLEAN, mail \in MailOutcomes :
            LET c == create_booking(bookings, nextId, EmptySession, today, user_id,
                                    start_date, end_date, queryOk, commitOk, "")
                r == book(bookings, nextId, EmptySession, today, user_id, "valid",
                          start_date, end_date, queryOk, commitOk, "", TRUE, mail)
            IN  c.err = "" =>
                  /\ r.to = "calendar"
                  /\ r.db = c.db
                  /\ c.booking \in r.db
                  /\ c.booking.status = "confirmed"
                  /\ c.booking \notin bookings)
    /\ [][(resp' # resp /\ resp'.op = "book" /\ resp'.err = FlashUnsent)
            => (/\ resp'.to = "calendar"
                /\ last'.op = "create" /\ last'.ret /\ last'.booking_id = resp'.ret
                /\ \E b \in bookings' \ bookings :
                      /\ b.id = resp'.ret
                      /\ b.user_id = web
                      /\ b.status = "confirmed"
                /\ bookings \subseteq bookings')]_vars

\* POST /book has stored a reservation, the sending of the confirmation
\* raised, and the response is the redirect to the calendar.
C21_Witness ==
    /\ resp.op = "book" /\ resp.err = FlashUnsent /\ resp.to = "calendar"
    /\ \E b \in bookings : b.id = resp.ret /\ b.status = "confirmed"

\* C31: after a POST /signup that has created a user (redirect to
\* sign-in), a verification token of that user is stored.
C31_SignupStoresToken ==
    (resp.op = "signup" /\ resp.to = "signin" /\ resp.ret # 0)
        => \E k \in tokens : k.user_id = resp.ret

\* C32: with a password that is not the one of the email's user,
\* authenticate_user and POST /signin give the result they give when no
\* user has the email: the error 'Incorrect email or password' when the
\* storage answers, whether the email is registered or not.
C32_SameErrorUnknownOrWrong ==
    \A email \in RawEmails, password \in Passwords, queryOk \in BOOLEAN, e \in DbErrors :
        LET known == {u \in users : u.email = strip(lower(email))}
            a == authenticate_user(users, email, password, queryOk, e)
        IN  (\A u \in known : ~check_password(u, password)) =>
              /\ a = authenticate_user(users \ known, email, password, queryOk, e)
              /\ signin(users, 0, email, password, queryOk, e)
                   = signin(users \ known, 0, email, password, queryOk, e)
              /\ (queryOk /\ email # <<>> /\ password # "")
                   => (a.user = NoUser /\ a.err = ErrIncorrect /\ a.exc = "")

\* POST /signin has been refused with 'Incorrect email or password' while
\* a user is registered.
C32_Witness ==
    /\ resp.op = "signin" /\ resp.to = "401" /\ resp.err = ErrIncorrect
    /\ web = 0 /\ users # {}

\* C33: at a guarded route, when the user_id of the session matches no
\* stored user or the lookup of the user fails, the session is cleared,
\* the request is redirected to sign-in and the handler does not run.
C33_UnknownSessionCleared ==
    /\ [](\A user_id \in Users, queryOk \in BOOLEAN :
            LET g == guarded(users, user_id, queryOk)
            IN  (~queryOk \/ \A u \in users : u.id # user_id)
                  => (~g.run /\ g.to = "signin" /\ g.web = 0 /\ g.msg = FlashExpired))
    /\ [][(resp' # resp /\ resp'.op \in GuardedRoutes /\
            (resp'.err = FlashExpired \/ (web # 0 /\ \A u \in users : u.id # web)))
            => (/\ web # 0 /\ web' = 0
                /\ resp'.to = "signin" /\ resp'.err = FlashExpired
                /\ UNCHANGED bookvars)]_vars

\* A request of POST /book whose session user was not found has been sent
\* to sign-in and the session is empty, both users being stored.
C33_Witness ==
    /\ resp.op = "book" /\ resp.to = "signin" /\ resp.err = FlashExpired
    /\ web = 0
    /\ \A id \in Users : \E u \in users : u.id = id

\* C34: GET /signout leaves no user_id in the session; a session without
\* user_id gets one only by a successful POST /signin; and as long as it
\* has none every request to a guarded route is redirected to sign-in and
\* its handler does not run.
C34_SignedOutStaysOut ==
    [][/\ resp'.op = "signout" => (web' = 0 /\ resp'.to = "home")
       /\ (web = 0 /\ web' # 0)
             => (resp'.op = "signin" /\ resp'.to = "home" /\ resp'.ret = web')
       /\ (web = 0 /\ resp'.op \in GuardedRoutes)
             => (/\ resp'.to = "signin" /\ resp'.err = FlashSignIn
                 /\ web' = 0
                 /\ UNCHANGED bookvars)]_vars

\* GET /signout has emptied the session of a user who had made a
\* reservation.
C34_Witness ==
    /\ resp.op = "signout" /\ web = 0
    /\ last.op = "create" /\ last.ret
    /\ bookings # {}

\* C35: a call of send_email with mail initialised and max_retries >= 1
\* calls mail.send at most max_retries times, each call after failures
\* only; it returns True at the first call that succeeds and makes no call
\* after it; it returns False exactly when max_retries calls have failed;
\* and every call that has entered the loop returns.
C35_RetriesBounded ==
    /\ []((mailer.max_retries >= 1 /\ mailer.ret # "ValueError") =>
            /\ mailer.sends <= mailer.max_retries
            /\ mailer.attempt <= mailer.sends
            /\ mailer.ret = "True" =>
                  (mailer.pc = "done" /\ mailer.sends = mailer.attempt + 1)
            /\ mailer.ret = "False" =>
                  (/\ mailer.pc = "done"
                   /\ mailer.sends = mailer.max_retries
                   /\ mailer.attempt = mailer.max_retries)
            /\ mailer.pc = "done" =>
                  (/\ mailer.ret \in {"True", "False"}
                   /\ mailer.ret = "False" <=> mailer.attempt = mailer.max_retries))
    /\ [][/\ mailer'.sends > mailer.sends =>
                (/\ mailer.pc = "loop" /\ mailer.ret = "none"
                 /\ mailer.attempt = mailer.sends
                 /\ mailer'.sends = mailer.sends + 1)
          /\ mailer.pc = "done" => mailer' = NoMail]_vars
    /\ (mailer.pc = "loop") ~> (mailer.pc = "done")

\* send_email with max_retries = 3 has returned True at its third call of
\* mail.send.
C35_Witness ==
    /\ mailer.pc = "done" /\ mailer.ret = "True"
    /\ mailer.max_retries = 3 /\ mailer.sends = 3 /\ mailer.attempt = 2

RECURSIVE Pow2(_)
Pow2(k) == IF k = 0 THEN 1 ELSE 2 * Pow2(k - 1)

\* C36: in a call of send_email with max_retries >= 1, the waits made so
\* far are 1, 2, 4, ... seconds, one after each failed attempt but the
\* max_retries-th, and none after the attempt that succeeded.
C36_ExponentialBackoff ==
    (mailer.max_retries >= 1 /\ mailer.ret # "ValueError") =>
        /\ Len(mailer.slept) =
              IF mailer.attempt < mailer.max_retries
              THEN mailer.attempt ELSE mailer.max_retries - 1
        /\ \A k \in 1..Len(mailer.slept) : mailer.slept[k] = Pow2(k - 1)

\* send_email with max_retries = 4 has returned False after waits of 1, 2
\* and 4 seconds.
C36_Witness ==
    /\ mailer.pc = "done" /\ mailer.ret = "False"
    /\ mailer.max_retries = 4 /\ mailer.slept = <<1, 2, 4>>

====
